---- MODULE Spec2Model ----
(***************************************************************************)
(* The wager (duel) engine, the invitations with their verification        *)
(* challenge, and the points cascade of flurkroombot, in its two           *)
(* implementations:                                                        *)
(*   "roombot" : the monolithic bot, src/roombot.py (state in bot_data)    *)
(*   "modular" : src/main.py with handlers.py, callbacks.py,               *)
(*               message_handlers.py, user_manager.py, invite_manager.py,  *)
(*               database.py                                               *)
(* Updates are dispatched one at a time. A handler mutates state in the    *)
(* synchronous block before its first await, and is one atomic step; the   *)
(* private-message handler also writes after awaiting the invite link, and *)
(* is two steps, between which only the cleanup task can run.              *)
(*                                                                         *)
(* Units: currency is counted in 1/512 cent (Cent, Point), so that the     *)
(* halvings of a cascade are exact; a command argument is counted in       *)
(* thousandths of a point so that round(points, 2) acts.                   *)
(* Time is counted in whole seconds.                                       *)
(***************************************************************************)
EXTENDS Integers, Sequences, FiniteSets, TLC

\* ------------------------------------------------------------- bounds
MaxWagers == 2  \* wagers created in one behaviour
MaxTicks == 1   \* clock advances in one behaviour
MaxCodes == 2   \* invite codes generated in one behaviour
MaxChallenges == 2  \* challenges issued in one behaviour
MaxSubmissions == 4 \* private messages handled in one behaviour
MaxJoins == 2
MaxCascades == 2 \* cascades run in one behaviour

\* -------------------------------------------------- program constants
WAGER_EXPIRY == 60        \* seconds an open wager can be accepted
MAX_WAGER_MILLI == 1000000 \* "points > 1000" is rejected (in thousandths)
VERIFICATION_TIMEOUT == 300 \* seconds a challenge can be answered
BLACKLIST_DURATION == 86400 \* seconds an account stays blocked
MAX_ATTEMPTS == 3         \* "if verif['attempts'] >= 3"
STREAK_BONUS_TENTHS == 1  \* STREAK_BONUS_MULTIPLIER = 0.1
MAX_DEPTH == 10           \* "depth < max_depth"
MIN_CASCADE == 1          \* "current_points >= 0.01", in cents
LEVEL_XP_REQUIRED == 100  \* base XP required per level
ACTIVITY_XP_MESSAGE == 1  \* XP per counted message
ACTIVITY_XP_DAILY == 50   \* XP of the daily bonus
MESSAGE_COOLDOWN == 30    \* seconds between XP-earning messages
DAILY_BONUS_COOLDOWN == 86400
HEAT_DECAY_HOURS == 24
STREAK_WINDOW == 86400    \* "if now - last_success < 86400"
WAGER_XP_TENTHS == 1      \* WAGER_XP_MULTIPLIER = 0.1
MILESTONE_ANNOUNCES == <<10, 25, 50, 100, 250, 500, 1000>>
\* The value 0 that a new record holds in its timestamps, on the clock of
\* the model, which starts ten days' worth of seconds after it.
EPOCH == -864000
\* The local time of day at which the clock of the model starts: 45 seconds
\* before midnight.
SECONDS_INTO_DAY == 86355

\* Units of currency in a cent and in a point: a whole number of cents can be
\* halved MAX_DEPTH - 1 times without a remainder.
Cent == 2^(MAX_DEPTH - 1)
Point == 100 * Cent

Impls == {"roombot", "modular"}
Users == {1, 2, 3, 4, 5}
\* The accounts that send commands, press buttons and write messages; the
\* others only sit in invite trees.
Actors == {1, 2, 3}
\* Balances found in storage when the process starts (whole points).
InitPoints == {2 * Point}
\* Who holds a "total_xp_earned" field when the process starts: an account gets
\* it with its first counted message or daily bonus, not with a gift received.
InitXpKeys == {Users, Users \ {3}}
\* /wager arguments, in thousandths of a point: 0, 0.004, 0.5, 1, 1000.004
StakeInputs == {0, 4, 500, 1000, 1000004}
\* The accounts that issue /wager; every account presses buttons.
Challengers == {1, 2}
\* The clock moves to a wager's expires_at, or one second past it.
TimeSteps == {WAGER_EXPIRY, WAGER_EXPIRY + 1}

NoId == <<>>
NoPoints == <<>>
NoUser == CHOOSE n \in 0..Cardinality(Users) : n \notin Users

VARIABLES
  impl,            \* which implementation runs
  now,             \* time.time(), in seconds
  points,          \* roombot: users[u]["lover_points"]; modular: users.Points
  pending_wagers,  \* wager_id -> [challenger_id, points, expires_at, accepted]
  user_cache,      \* modular: UserManager.user_cache keys
  total_xp_key,    \* roombot: users whose record holds "total_xp_earned"
  xp_awarded,      \* users whose "xp" a duel has added to (the amount may be 0)
  invites,         \* invite_code -> [inviter_id, group_id, active, total_uses,
                   \*                 used_by_list]
  relationships,   \* user_id -> the inviter recorded as its parent
  verifications,   \* user_id -> [answer, invite_code, expires_at, attempts]
  blacklisted_until, \* user_id -> time until which the account is blocked
  link_waiting,    \* private-message handlers suspended at the await of
                   \* create_chat_invite_link: [user_id, invite_code]
  invite_streak,   \* user_id -> users[u]["invite_streak"]
  last_active,     \* user_id -> "last_active": set when the record or the
                   \* session is created and by a counted message
  xp,              \* user_id -> "xp"
  level,           \* user_id -> "level"
  wagers_won,      \* user_id -> "wagers_won"
  wagers_lost,     \* user_id -> "wagers_lost"
  messages_sent,   \* user_id -> "messages_sent"
  days_active,     \* user_id -> "days_active"
  last_message_xp, \* user_id -> "last_message_xp"
  activity_tracking, \* user_id -> the calendar days with a counted message
  last_daily_bonus, \* user_id -> "last_daily_bonus"
  last_invite_success, \* user_id -> "last_invite_success"
  invites_successful, \* user_id -> "invites_successful"
  milestones_reached, \* user_id -> "milestones_reached", in order
  joins,           \* new-member events handled so far
  rewarded,        \* members whose join has run the cascade
  plast,           \* the last join, message or /daily handler invocation
  \* ---- history variables (read by the properties only)
  codes,           \* invite codes generated so far
  challenges,      \* challenges issued so far
  submissions,     \* private messages handled so far
  vlast,           \* the last invitation or verification handler invocation
  cascades,        \* cascades run so far
  cascade,         \* the last cascade: its direct inviter, base and streak, and
                   \* the award_points calls it made, in order
  ticks,           \* clock advances so far
  created,         \* wagers created so far
  issued,          \* wager_id -> the latest wager created under that id
  terminal,        \* <<wager_id, kind>>: credits that ended a wager
  attempts,        \* wager_id -> the first two qualified accept attempts
  ledger,          \* initial balance + sum of (value written - value read)
  last             \* the last handler invocation

wager_vars == <<points, pending_wagers, total_xp_key, xp_awarded,
                created, issued, terminal, attempts, ledger, last>>

network_vars == <<invites, relationships, verifications, blacklisted_until,
                  link_waiting, codes, challenges, submissions, vlast>>

cascade_vars == <<invite_streak, cascades, cascade>>

session_vars == <<user_cache, last_active>>

level_vars == <<xp, level, wagers_won, wagers_lost>>

activity_vars == <<messages_sent, days_active, last_message_xp,
                   activity_tracking>>

stat_vars == <<last_daily_bonus, last_invite_success, invites_successful,
               milestones_reached, joins, rewarded>>

profile_vars == <<activity_vars, stat_vars, plast>>

vars == <<impl, now, ticks, session_vars, wager_vars, network_vars,
          cascade_vars, level_vars, profile_vars>>

\* The Application handles one update at a time (it is built without
\* concurrent_updates): while a handler is suspended at an await no other
\* handler starts; only tasks of the event loop run.
DispatcherIdle == link_waiting = {}

\* ------------------------------------------------------ pure functions

\* round(points, 2) on an argument given in thousandths: the nearest cent,
\* an exact tie going to the even cent.
Round2(x) ==
  LET q == x \div 10
      r == x % 10
  IN  Cent * (IF r < 5 THEN q
              ELSE IF r > 5 THEN q + 1
              ELSE IF q % 2 = 0 THEN q ELSE q + 1)

\* int(x) on a currency amount: truncation toward zero to whole points.
IntCast(c) ==
  IF c >= 0 THEN (c \div Point) * Point ELSE -(((-c) \div Point) * Point)

\* "points <= 0 or points > 1000: raise ValueError"
ValidStake(x) == ~(x <= 0 \/ x > MAX_WAGER_MILLI)

\* f"wager_{int(time.time())}_{user_id}"
WagerId(t, u) == <<t, u>>

\* A wager that never expires.
ExpiredNever(w) == FALSE

\* An expiry test that lets a press through one second late.
ExpiredLate(w) == now > w.expires_at + 1

Expired(w) == now > w.expires_at

ExpiredIds == {id \in DOMAIN pending_wagers : Expired(pending_wagers[id])}

\* A challenge that can still be answered one second late.
VerificationExpiredLate(v) == now > v.expires_at + 1

VerificationExpired(v) == now > v.expires_at

ExpiredVerifications ==
  {u \in DOMAIN verifications : VerificationExpired(verifications[u])}

\* A round that leaves the expired challenges where they are.
cleanup_expired_nothing == verifications

\* UserManager.cleanup_expired_data: what stays in verification_cache.
cleanup_expired_data ==
  [u \in (DOMAIN verifications) \ ExpiredVerifications |-> verifications[u]]

Restrict(f, S) == [x \in S |-> f[x]]

NewWager(c, s) ==
  [challenger_id |-> c, points |-> s,
   expires_at |-> now + WAGER_EXPIRY, accepted |-> FALSE]

Store(pw, id, w) ==
  [x \in (DOMAIN pw) \cup {id} |-> IF x = id THEN w ELSE pw[x]]

\* Stake of the unaccepted wagers of u among the ids S.
RECURSIVE OpenStake(_, _)
OpenStake(S, u) ==
  IF S = {} THEN 0
  ELSE LET id == CHOOSE x \in S : TRUE
           w == pending_wagers[id]
       IN  (IF w.challenger_id = u /\ ~w.accepted THEN w.points ELSE 0)
           + OpenStake(S \ {id}, u)

\* The record of a handler invocation: what was asked, by whom, on which
\* wager, how it ended; a create that stored a wager also keeps the balances
\* it found after its sweep (pre), a settlement the winner the coin picked.
\* A rejected request keeps the request and the reason: it changed nothing.
Last(op, u, id, res, s, pre, win) ==
  [op |-> op, user |-> u, wid |-> id, result |-> res, stake |-> s,
   pre |-> pre, winner |-> win]

Rejected(op, res) == Last(op, NoUser, NoId, res, 0, NoPoints, NoUser)

\* History of the qualified accept attempts on the wager stored under id: the
\* acceptor is not the challenger, holds at least the stake, and presses no
\* later than the wager's expires_at. It keeps, per wager, the first such
\* attempt made while the wager is open (stored and unaccepted) and the first
\* one after it by another acceptor, as <<user, result>>.
Qualified(u, id) ==
  /\ id \in DOMAIN issued
  /\ u # issued[id].challenger_id
  /\ points[u] >= issued[id].points
  /\ ~(now > issued[id].expires_at)

Attempt(u, id, res) ==
  IF ~Qualified(u, id) THEN attempts
  ELSE IF id \notin DOMAIN attempts
       THEN IF id \in DOMAIN pending_wagers /\ ~pending_wagers[id].accepted
            THEN [x \in (DOMAIN attempts) \cup {id} |->
                    IF x = id THEN << <<u, res>> >> ELSE attempts[x]]
            ELSE attempts
  ELSE IF Len(attempts[id]) = 1 /\ attempts[id][1][1] # u
       THEN [attempts EXCEPT ![id] = Append(@, <<u, res>>)]
  ELSE attempts

Forget(S, id) == {e \in S : e[1] # id}

ForgetAttempts(id) == Restrict(attempts, (DOMAIN attempts) \ {id})

\* ----------------------------------------------------------------- Init
\* The state after construction, but for the relationships, the invite
\* streaks and the session cache.
InitCore ==
  /\ impl \in Impls
  /\ now = 0
  /\ pending_wagers = [x \in {} |-> 0]
  /\ total_xp_key \in (IF impl = "roombot" THEN InitXpKeys ELSE {{}})
  /\ xp_awarded = {}
  /\ ticks = 0
  /\ created = 0
  /\ issued = [x \in {} |-> 0]
  /\ terminal = {}
  /\ attempts = [x \in {} |-> 0]
  /\ ledger = points
  /\ last = Rejected("init", "ok")
  /\ invites = [x \in {} |-> 0]
  /\ verifications = [x \in {} |-> 0]
  /\ blacklisted_until = [u \in Users |-> 0]
  /\ link_waiting = {}
  /\ codes = 0
  /\ challenges = 0
  /\ submissions = 0
  /\ vlast = [op |-> "init"]
  /\ cascades = 0
  /\ cascade = [op |-> "init"]

InitBase ==
  /\ points \in [Users -> InitPoints]
  /\ InitCore

\* The fields of a record made by init_user / get_or_create_user
InitLevels ==
  /\ xp = [u \in Users |-> 0]
  /\ level = [u \in Users |-> 1]
  /\ wagers_won = [u \in Users |-> 0]
  /\ wagers_lost = [u \in Users |-> 0]

InitHistory ==
  /\ joins = 0
  /\ rewarded = {}
  /\ plast = [op |-> "init"]

InitActivity ==
  /\ last_active = [u \in Users |-> 0]
  /\ messages_sent = [u \in Users |-> 0]
  /\ days_active = [u \in Users |-> 0]
  /\ last_message_xp = [u \in Users |-> EPOCH]
  /\ activity_tracking = [u \in Users |-> {}]
  /\ last_daily_bonus = [u \in Users |-> EPOCH]

InitStats ==
  /\ last_invite_success = [u \in Users |-> EPOCH]
  /\ invites_successful = [u \in Users |-> 0]
  /\ milestones_reached = [u \in Users |-> <<>>]

InitProfile == InitActivity /\ InitStats /\ InitHistory

Init ==
  /\ InitBase
  /\ InitLevels
  /\ InitProfile
  /\ user_cache = {}
  /\ relationships = [x \in {} |-> 0]
  /\ invite_streak = [u \in Users |-> 0]

\* ------------------------------------------------------- levels, sessions
\* get_or_create_user: a session made now holds last_active = time.time()
Created(cache) ==
  [u \in Users |-> IF u \in cache \ user_cache THEN now ELSE last_active[u]]

calculate_level_xp(l) == LEVEL_XP_REQUIRED * l * (1 + l \div 10)

\* check_level_up on an account with x XP at level l: one test, one level
check_level_up(x, l) ==
  IF x >= calculate_level_xp(l)
  THEN [xp |-> x - calculate_level_xp(l), level |-> l + 1, leveled |-> TRUE]
  ELSE [xp |-> x, level |-> l, leveled |-> FALSE]

\* calculate_loveliness_score, in hundredths; the decay starts after
\* ACTIVITY_DECAY_DAYS = 7 days without a counted message, which is farther
\* than the clock of the model goes.
calculate_loveliness_score(u) ==
  IF impl = "modular" /\ u \notin user_cache THEN 0
  ELSE messages_sent[u] * 10 + days_active[u] * 500

\* int(points * WAGER_XP_MULTIPLIER * (1 + loveliness / 100)) for a stake
\* of s: cents * tenths * (10000 + loveliness) \div 10^7, computed in two
\* parts to stay within 32 bits.
WagerXp(s, u) ==
  LET cents == s \div Cent
      k == WAGER_XP_TENTHS * (10000 + calculate_loveliness_score(u))
  IN  ((cents \div 1000) * k + ((cents % 1000) * k) \div 1000) \div 10000

\* datetime.now().date(): the calendar day of time t
date(t) == (t + SECONDS_INTO_DAY) \div 86400

\* track_activity(user_id) for an account that has its record: the values
\* it leaves in the record, and whether the message was counted
\* A cooldown that is one second shorter.
CooldownElapsedEarly(u) == now - last_message_xp[u] >= MESSAGE_COOLDOWN - 1

\* "if now - user['last_message_xp'] >= MESSAGE_COOLDOWN"
CooldownElapsed(u) == now - last_message_xp[u] >= MESSAGE_COOLDOWN

track_activity(u) ==
  LET counted == CooldownElapsed(u)
      up == check_level_up(xp[u] + ACTIVITY_XP_MESSAGE, level[u])
  IN  IF ~counted
      THEN [counted |-> FALSE, leveled |-> FALSE, xp |-> xp[u],
            level |-> level[u], messages_sent |-> messages_sent[u],
            days_active |-> days_active[u],
            last_message_xp |-> last_message_xp[u],
            activity_tracking |-> activity_tracking[u]]
      ELSE [counted |-> TRUE, leveled |-> up.leveled, xp |-> up.xp,
            level |-> up.level, messages_sent |-> messages_sent[u] + 1,
            days_active |-> IF date(now) \in activity_tracking[u]
                            THEN days_active[u] ELSE days_active[u] + 1,
            last_message_xp |-> now,
            activity_tracking |-> activity_tracking[u] \cup {date(now)}]

\* A handler that calls track_activity(u) after it made sure of u's record;
\* cache is the session cache it leaves.
TrackActivity(u, cache) ==
  LET t == track_activity(u) IN
  /\ xp' = [xp EXCEPT ![u] = t.xp]
  /\ level' = [level EXCEPT ![u] = t.level]
  /\ messages_sent' = [messages_sent EXCEPT ![u] = t.messages_sent]
  /\ days_active' = [days_active EXCEPT ![u] = t.days_active]
  /\ last_message_xp' = [last_message_xp EXCEPT ![u] = t.last_message_xp]
  /\ activity_tracking' =
       [activity_tracking EXCEPT ![u] = t.activity_tracking]
  /\ last_active' = IF t.counted THEN [Created(cache) EXCEPT ![u] = now]
                    ELSE Created(cache)
  \* roombot: user["total_xp_earned"] = user.get("total_xp_earned", 0) + 1
  /\ total_xp_key' = IF impl = "roombot" /\ t.counted
                     THEN total_xp_key \cup {u} ELSE total_xp_key
  /\ plast' = [op |-> "message", user |-> u, counted |-> t.counted,
               leveled |-> t.leveled]

\* A handler that does not reach track_activity
NoActivity(cache) ==
  /\ last_active' = Created(cache)
  /\ UNCHANGED <<xp, level, activity_vars, total_xp_key, plast>>

\* The duel's XP and counters: both parties gain their wager XP, the winner
\* and the loser are counted, then check_level_up runs once for each of them.
DuelLevels(c, u, s, winner_id) ==
  LET Gained(v) == xp[v] + WagerXp(s, v) IN
  /\ xp' = [v \in Users |->
             IF v \in {c, u} THEN check_level_up(Gained(v), level[v]).xp
             ELSE xp[v]]
  /\ level' = [v \in Users |->
                IF v \in {c, u} THEN check_level_up(Gained(v), level[v]).level
                ELSE level[v]]
  /\ wagers_won' = [wagers_won EXCEPT ![winner_id] = @ + 1]
  /\ wagers_lost' = [wagers_lost EXCEPT ![IF winner_id = c THEN u ELSE c] = @ + 1]

\* -------------------------------------------------------------- the clock
Advance(d) ==
  /\ ticks < MaxTicks
  /\ now' = now + d
  /\ ticks' = ticks + 1
  /\ UNCHANGED <<impl, points, pending_wagers, session_vars, total_xp_key,
                 xp_awarded, created, issued, terminal, attempts, ledger, last>>
  /\ UNCHANGED <<network_vars, cascade_vars, level_vars, profile_vars>>

Add(f, g) == [u \in Users |-> f[u] + g[u]]

Credit(f, u, amount) == [f EXCEPT ![u] = @ + amount]

ExpiredRefunds(E) == [u \in Users |-> OpenStake(E, u)]

ExpiredEvents(E) ==
  {<<id, "expired">> : id \in {x \in E : ~pending_wagers[x].accepted}}

\* =========================================================== src/roombot.py

\* cleanup_expired_wagers(): every expired wager is deleted, the unaccepted
\* ones are refunded to a challenger that is in bot_data["users"].
roombot_cleanup_points == Add(points, ExpiredRefunds(ExpiredIds))

roombot_cleanup_wagers ==
  Restrict(pending_wagers, (DOMAIN pending_wagers) \ ExpiredIds)

\* /wager <x> by c
roombot_cmd_wager(c, x) ==
  LET pts1 == roombot_cleanup_points
      pend1 == roombot_cleanup_wagers
      s == Round2(x)
      id == WagerId(now, c)
      swept == terminal \cup ExpiredEvents(ExpiredIds)
  IN
  /\ impl = "roombot"
  /\ DispatcherIdle
  /\ created < MaxWagers
  /\ UNCHANGED <<impl, now, session_vars, total_xp_key, xp_awarded, ticks>>
  /\ UNCHANGED <<network_vars, cascade_vars, level_vars, profile_vars>>
  /\ IF ~ValidStake(x) THEN
       /\ points' = pts1
       /\ pending_wagers' = pend1
       /\ terminal' = swept
       /\ UNCHANGED <<created, issued, attempts>>
       /\ last' = Rejected("create", "invalid")
     ELSE IF pts1[c] < s THEN
       /\ points' = pts1
       /\ pending_wagers' = pend1
       /\ terminal' = swept
       /\ UNCHANGED <<created, issued, attempts>>
       /\ last' = Rejected("create", "insufficient")
     ELSE
       /\ pending_wagers' = Store(pend1, id, NewWager(c, s))
       /\ points' = Credit(pts1, c, -s)
       /\ created' = created + 1
       /\ issued' = Store(issued, id, NewWager(c, s))
       /\ terminal' = Forget(swept, id)
       /\ attempts' = ForgetAttempts(id)
       /\ last' = Last("create", c, id, "ok", s, pts1, NoUser)
  /\ ledger' = Add(ledger, [u \in Users |-> points'[u] - points[u]])

\* A press of button a ("accept" or "cancel") of wager id by u
\* A cancel that anybody may press.
NotChallengerNever(u, c) == FALSE

\* "if user_id != wager['challenger_id']" of the cancel branch
NotChallenger(u, c) == u # c

\* An acceptor who is never short of points.
InsufficientPointsNever(u, s) == FALSE

\* "if acceptor['points'] < wager['points']": the acceptor cannot cover s
InsufficientPoints(u, s) == points[u] < s

roombot_handle_callback_query(u, a, id) ==
  LET w == pending_wagers[id]
      c == w.challenger_id
      s == w.points
      rest == Restrict(pending_wagers, (DOMAIN pending_wagers) \ {id})
  IN
  /\ impl = "roombot"
  /\ DispatcherIdle
  /\ UNCHANGED <<impl, now, session_vars, total_xp_key, ticks, created, issued>>
  /\ UNCHANGED <<network_vars, cascade_vars, profile_vars>>
  /\ IF id \notin DOMAIN pending_wagers THEN
       /\ UNCHANGED <<xp_awarded, level_vars, points, pending_wagers, terminal>>
       /\ attempts' = IF a = "accept" THEN Attempt(u, id, "gone") ELSE attempts
       /\ last' = Rejected(a, "gone")
     ELSE IF Expired(w) THEN
       \* refunded whether or not the wager was accepted
       /\ points' = Credit(points, c, s)
       /\ pending_wagers' = rest
       /\ terminal' = terminal \cup {<<id, "expired">>}
       /\ UNCHANGED <<attempts, xp_awarded, level_vars>>
       /\ last' = Last(a, u, id, "expired", s, NoPoints, NoUser)
     ELSE IF a = "accept" THEN
       IF u = c THEN
         /\ UNCHANGED <<xp_awarded, level_vars, points, pending_wagers, terminal, attempts>>
         /\ last' = Rejected(a, "self")
       ELSE IF w.accepted THEN
         /\ UNCHANGED <<xp_awarded, level_vars, points, pending_wagers, terminal>>
         /\ attempts' = Attempt(u, id, "already_accepted")
         /\ last' = Rejected(a, "already_accepted")
       ELSE IF InsufficientPoints(u, s) THEN
         /\ UNCHANGED <<xp_awarded, level_vars, points, pending_wagers, terminal, attempts>>
         /\ last' = Rejected(a, "insufficient")
       ELSE IF c \notin total_xp_key \/ u \notin total_xp_key THEN
         \* wager["accepted"] = True, then KeyError at
         \* users[...]["total_xp_earned"] += xp: the handler ends here
         /\ pending_wagers' = [pending_wagers EXCEPT ![id].accepted = TRUE]
         /\ UNCHANGED <<points, terminal>>
         /\ xp_awarded' = xp_awarded \cup
              (IF c \notin total_xp_key THEN {c} ELSE {c, u})
         /\ xp' = [xp EXCEPT ![c] = @ + WagerXp(s, c),
                              ![u] = IF c \in total_xp_key
                                     THEN @ + WagerXp(s, u) ELSE @]
         /\ UNCHANGED <<level, wagers_won, wagers_lost>>
         /\ attempts' = Attempt(u, id, "error")
         /\ last' = Last(a, u, id, "error", s, NoPoints, NoUser)
       ELSE
         \E winner_id \in {c, u} :
           LET loser_id == IF winner_id = c THEN u ELSE c IN
           /\ points' = Credit(Credit(points, winner_id, 2 * s), loser_id, -s)
           /\ pending_wagers' = rest
           /\ xp_awarded' = xp_awarded \cup {c, u}
           /\ DuelLevels(c, u, s, winner_id)
           /\ terminal' = terminal \cup {<<id, "settled">>}
           /\ attempts' = Attempt(u, id, "settled")
           /\ last' = Last(a, u, id, "settled", s, NoPoints, winner_id)
     ELSE
       IF NotChallenger(u, c) THEN
         /\ UNCHANGED <<xp_awarded, level_vars, points, pending_wagers, terminal, attempts>>
         /\ last' = Rejected(a, "forbidden")
       ELSE
         /\ points' = Credit(points, c, s)
         /\ pending_wagers' = rest
         /\ terminal' = terminal \cup {<<id, "cancelled">>}
         /\ UNCHANGED <<attempts, xp_awarded, level_vars>>
         /\ last' = Last(a, u, id, "cancelled", s, NoPoints, NoUser)
  /\ ledger' = Add(ledger, [v \in Users |-> points'[v] - points[v]])

Actions == {"accept", "cancel"}

\* ============ src/handlers.py, callbacks.py, user_manager.py, main.py
\* UserManager.award_points: reads the stored balance, writes int(balance +
\* points); nothing happens for an account without session data.
award_points(pts, cache, u, amount) ==
  IF u \in cache THEN [pts EXCEPT ![u] = IntCast(pts[u] + amount)] ELSE pts

\* The callers' loop "for expired in expired_wagers: if not accepted:
\* award_points(challenger_id, points)" over the expired ids S.
RECURSIVE RefundExpired(_, _, _)
RefundExpired(pts, cache, S) ==
  IF S = {} THEN pts
  ELSE LET id == CHOOSE x \in S : TRUE
           w == pending_wagers[id]
       IN  RefundExpired(
             IF w.accepted THEN pts
             ELSE award_points(pts, cache, w.challenger_id, w.points),
             cache, S \ {id})

\* InviteManager.cleanup_expired_wagers: what stays in the store.
cleanup_expired_wagers ==
  Restrict(pending_wagers, (DOMAIN pending_wagers) \ ExpiredIds)

\* What a write of `written` by a handler that read `read` adds to the ledger.
Applied(led, u, read, written) == [led EXCEPT ![u] = @ + (written - read)]

\* CommandHandlers.cmd_wager: /wager <x> by c
handlers_cmd_wager(c, x) ==
  LET user_points == points[c]              \* user = get_or_create_user(...)
      cache == user_cache \cup {c}
      pts1 == RefundExpired(points, cache, ExpiredIds)
      pend1 == cleanup_expired_wagers
      s == Round2(x)
      id == WagerId(now, c)
      new_points == IntCast(user_points - s)
      swept == terminal \cup ExpiredEvents(ExpiredIds)
      led1 == Add(ledger, [u \in Users |-> pts1[u] - points[u]])
  IN
  /\ impl = "modular"
  /\ DispatcherIdle
  /\ created < MaxWagers
  /\ UNCHANGED <<impl, now, total_xp_key, xp_awarded, ticks>>
  /\ UNCHANGED <<network_vars, cascade_vars, level_vars, profile_vars>>
  /\ user_cache' = cache
  /\ last_active' = Created(cache)
  /\ IF ~ValidStake(x) THEN
       /\ points' = pts1
       /\ pending_wagers' = pend1
       /\ terminal' = swept
       /\ ledger' = led1
       /\ UNCHANGED <<created, issued, attempts>>
       /\ last' = Rejected("create", "invalid")
     ELSE IF user_points < s THEN
       /\ points' = pts1
       /\ pending_wagers' = pend1
       /\ terminal' = swept
       /\ ledger' = led1
       /\ UNCHANGED <<created, issued, attempts>>
       /\ last' = Rejected("create", "insufficient")
     ELSE
       /\ points' = [pts1 EXCEPT ![c] = new_points]
       /\ pending_wagers' = Store(pend1, id, NewWager(c, s))
       /\ ledger' = Applied(led1, c, user_points, new_points)
       /\ created' = created + 1
       /\ issued' = Store(issued, id, NewWager(c, s))
       /\ terminal' = Forget(swept, id)
       /\ attempts' = ForgetAttempts(id)
       /\ last' = Last("create", c, id, "ok", s, pts1, NoUser)

\* CallbackHandlers.handle_callback_query: a press of button a of wager id by u
callbacks_handle_callback_query(u, a, id) ==
  LET w == pending_wagers[id]
      c == w.challenger_id
      s == w.points
      rest == Restrict(pending_wagers, (DOMAIN pending_wagers) \ {id})
  IN
  /\ impl = "modular"
  /\ DispatcherIdle
  /\ UNCHANGED <<impl, now, total_xp_key, ticks, created, issued>>
  /\ UNCHANGED <<network_vars, cascade_vars, profile_vars>>
  /\ IF id \notin DOMAIN pending_wagers THEN
       /\ UNCHANGED <<xp_awarded, level_vars, points, pending_wagers, terminal, session_vars, ledger>>
       /\ attempts' = IF a = "accept" THEN Attempt(u, id, "gone") ELSE attempts
       /\ last' = Rejected(a, "gone")
     ELSE IF Expired(w) THEN
       \* _handle_expired_wager
       /\ points' = IF w.accepted THEN points
                    ELSE award_points(points, user_cache, c, s)
       /\ ledger' = Add(ledger, [v \in Users |-> points'[v] - points[v]])
       /\ pending_wagers' = rest
       /\ terminal' = IF w.accepted THEN terminal
                      ELSE terminal \cup {<<id, "expired">>}
       /\ UNCHANGED <<attempts, session_vars, xp_awarded, level_vars>>
       /\ last' = Last(a, u, id, "expired", s, NoPoints, NoUser)
     ELSE IF a = "accept" THEN
       \* _handle_accept_wager
       IF u = c THEN
         /\ UNCHANGED <<xp_awarded, level_vars, points, pending_wagers, terminal, attempts,
                        session_vars, ledger>>
         /\ last' = Rejected(a, "self")
       ELSE IF w.accepted THEN
         /\ UNCHANGED <<xp_awarded, level_vars, points, pending_wagers, terminal, session_vars, ledger>>
         /\ attempts' = Attempt(u, id, "already_accepted")
         /\ last' = Rejected(a, "already_accepted")
       ELSE IF InsufficientPoints(u, s) THEN
         /\ user_cache' = user_cache \cup {u}
         /\ last_active' = Created(user_cache \cup {u})
         /\ UNCHANGED <<xp_awarded, level_vars, points, pending_wagers, terminal, attempts, ledger>>
         /\ last' = Rejected(a, "insufficient")
       ELSE
         \* accept_wager, then _execute_wager_duel; its remove_wager is given
         \* "" because the stored wager has no "wager_id": the wager stays
         \E winner_id \in {c, u} :
           LET challenger_new_points ==
                 IF winner_id = c THEN points[c] + s * 2 ELSE points[c]
               acceptor_new_points ==
                 IF winner_id = c THEN points[u] - s ELSE points[u] + s
           IN
           /\ user_cache' = user_cache \cup {u, c}
           /\ last_active' = Created(user_cache \cup {u, c})
           /\ points' = [points EXCEPT ![c] = IntCast(challenger_new_points),
                                       ![u] = IntCast(acceptor_new_points)]
           /\ ledger' = Add(ledger, [v \in Users |-> points'[v] - points[v]])
           /\ pending_wagers' = [pending_wagers EXCEPT ![id].accepted = TRUE]
           /\ xp_awarded' = xp_awarded \cup {c, u}
           /\ DuelLevels(c, u, s, winner_id)
           /\ terminal' = terminal \cup {<<id, "settled">>}
           /\ attempts' = Attempt(u, id, "settled")
           /\ last' = Last(a, u, id, "settled", s, NoPoints, winner_id)
     ELSE
       \* _handle_cancel_wager
       IF NotChallenger(u, c) THEN
         /\ UNCHANGED <<xp_awarded, level_vars, points, pending_wagers, terminal, attempts,
                        session_vars, ledger>>
         /\ last' = Rejected(a, "forbidden")
       ELSE
         /\ points' = award_points(points, user_cache, c, s)
         /\ ledger' = Add(ledger, [v \in Users |-> points'[v] - points[v]])
         /\ pending_wagers' = rest
         /\ terminal' = terminal \cup {<<id, "cancelled">>}
         /\ UNCHANGED <<attempts, session_vars, xp_awarded, level_vars>>
         /\ last' = Last(a, u, id, "cancelled", s, NoPoints, NoUser)

\* RoombotApplication.start_cleanup_task: one round of the periodic task (the
\* process may have started at any time before now = 0; a round that finds
\* nothing expired changes nothing)
main_start_cleanup_task ==
  /\ impl = "modular"
  /\ ExpiredIds # {} \/ ExpiredVerifications # {}
  /\ verifications' = cleanup_expired_data
  /\ points' = RefundExpired(points, user_cache, ExpiredIds)
  /\ ledger' = Add(ledger, [v \in Users |-> points'[v] - points[v]])
  /\ pending_wagers' = cleanup_expired_wagers
  /\ terminal' = terminal \cup ExpiredEvents(ExpiredIds)
  /\ last' = Last("cleanup", NoUser, NoId, "ok", 0, NoPoints, NoUser)
  /\ UNCHANGED <<impl, now, session_vars, total_xp_key, xp_awarded, ticks,
                 created, issued, attempts>>
  /\ UNCHANGED <<invites, relationships, blacklisted_until, link_waiting,
                 codes, challenges, submissions, vlast>>
  /\ UNCHANGED <<cascade_vars, level_vars, profile_vars>>

\* ====================================== invitations and verification
\* (src/roombot.py; src/handlers.py, message_handlers.py, user_manager.py,
\*  invite_manager.py)

Groups == {1, 2}
\* The emoji sequences random.sample can draw (emojis numbered from 1).
Samples == {<<1, 2, 3, 4>>, <<1, 2, 4, 3>>}
\* Private messages: emoji sequences, 0 standing for a space.
Texts == {<<1, 2, 3, 4>>, <<1, 2, 0, 3, 4>>, <<1, 2, 4, 3>>, <<2, 1, 3, 4>>}
\* The clock moves to a challenge's expires_at or one second past it, and to
\* one second before the end of a block or to its end.
VerificationTimeSteps ==
  {VERIFICATION_TIMEOUT, VERIFICATION_TIMEOUT + 1,
   BLACKLIST_DURATION - 1, BLACKLIST_DURATION}

NoCode == CHOOSE n \in 0..MaxCodes : n \notin 1..MaxCodes

\* answer.strip().replace(' ', '')
RECURSIVE Clean(_)
Clean(t) ==
  IF t = <<>> THEN <<>>
  ELSE IF Head(t) = 0 THEN Clean(Tail(t))
  ELSE <<Head(t)>> \o Clean(Tail(t))

\* A block that ends one second early.
is_blacklisted_early(u) == now < blacklisted_until[u] - 1

\* is_blacklisted: time.time() < blacklisted_until
is_blacklisted(u) == now < blacklisted_until[u]

\* A limit of attempts that is one too high.
TooManyAttemptsLate(n) == n >= MAX_ATTEMPTS + 1

TooManyAttempts(n) == n >= MAX_ATTEMPTS

Without(f, x) == [y \in (DOMAIN f) \ {x} |-> f[y]]

With(f, x, v) == [y \in (DOMAIN f) \cup {x} |-> IF y = x THEN v ELSE f[y]]

\* A create_verification that keeps the attempts of the challenge it replaces.
create_verification_keeps_attempts(u, invite_code, selected) ==
  IF is_blacklisted(u) THEN verifications
  ELSE With(verifications, u,
            [answer |-> selected, invite_code |-> invite_code,
             expires_at |-> now + VERIFICATION_TIMEOUT,
             attempts |-> IF u \in DOMAIN verifications
                          THEN verifications[u].attempts ELSE 0])

\* create_verification: None for a blocked account, else the challenge
\* stored for user_id (replacing a pending one); `selected` is the sample drawn.
create_verification(u, invite_code, selected) ==
  IF is_blacklisted(u) THEN verifications
  ELSE With(verifications, u,
            [answer |-> selected, invite_code |-> invite_code,
             expires_at |-> now + VERIFICATION_TIMEOUT, attempts |-> 0])

\* The outcome of verify_answer(user_id, answer): the tuple it returns and
\* the challenges and blocks it leaves.
VerifyResult(verified, code, verifs, black) ==
  [verified |-> verified, invite_code |-> code, verifications |-> verifs,
   blacklisted_until |-> black]

\* A verify_answer that counts the attempt, and blocks, before it compares.
verify_answer_blocks_first(u, answer) ==
  IF u \notin DOMAIN verifications
  THEN VerifyResult(FALSE, NoCode, verifications, blacklisted_until)
  ELSE LET verif == verifications[u]
           n == verif.attempts + 1
       IN  IF VerificationExpired(verif)
           THEN VerifyResult(FALSE, NoCode, Without(verifications, u),
                             blacklisted_until)
           ELSE IF TooManyAttempts(n)
           THEN VerifyResult(FALSE, NoCode, Without(verifications, u),
                  [blacklisted_until EXCEPT ![u] = now + BLACKLIST_DURATION])
           ELSE IF Clean(answer) = Clean(verif.answer)
           THEN VerifyResult(TRUE, verif.invite_code,
                             Without(verifications, u), blacklisted_until)
           ELSE VerifyResult(FALSE, NoCode,
                  [verifications EXCEPT ![u].attempts = n], blacklisted_until)

\* A verify_answer that blocks the account and keeps its challenge.
verify_answer_keeps_challenge(u, answer) ==
  IF u \notin DOMAIN verifications
  THEN VerifyResult(FALSE, NoCode, verifications, blacklisted_until)
  ELSE LET verif == verifications[u]
           n == verif.attempts + 1
       IN  IF VerificationExpired(verif)
           THEN VerifyResult(FALSE, NoCode, Without(verifications, u),
                             blacklisted_until)
           ELSE IF Clean(answer) = Clean(verif.answer)
           THEN VerifyResult(TRUE, verif.invite_code,
                             Without(verifications, u), blacklisted_until)
           ELSE IF TooManyAttempts(n)
           THEN VerifyResult(FALSE, NoCode,
                  [verifications EXCEPT ![u].attempts = n],
                  [blacklisted_until EXCEPT ![u] = now + BLACKLIST_DURATION])
           ELSE VerifyResult(FALSE, NoCode,
                  [verifications EXCEPT ![u].attempts = n], blacklisted_until)

verify_answer(u, answer) ==
  IF u \notin DOMAIN verifications
  THEN VerifyResult(FALSE, NoCode, verifications, blacklisted_until)
  ELSE LET verif == verifications[u]
           n == verif.attempts + 1
       IN  IF VerificationExpired(verif)
           THEN VerifyResult(FALSE, NoCode, Without(verifications, u),
                             blacklisted_until)
           ELSE IF Clean(answer) = Clean(verif.answer)
           THEN VerifyResult(TRUE, verif.invite_code,
                             Without(verifications, u), blacklisted_until)
           ELSE IF TooManyAttempts(n)
           THEN VerifyResult(FALSE, NoCode, Without(verifications, u),
                  [blacklisted_until EXCEPT ![u] = now + BLACKLIST_DURATION])
           ELSE VerifyResult(FALSE, NoCode,
                  [verifications EXCEPT ![u].attempts = n], blacklisted_until)

\* ------------------------------------------------------------- invites
NewInvite(u, g) ==
  [inviter_id |-> u, group_id |-> g, active |-> TRUE, total_uses |-> 0,
   used_by_list |-> <<>>]

\* The codes of u for group g that are active.
ActiveCodes(u, g) ==
  {code \in DOMAIN invites :
     /\ invites[code].inviter_id = u
     /\ invites[code].group_id = g
     /\ invites[code].active}

\* A /newinvite that leaves the previous code active.
deactivate_nothing(u, g) == invites

\* deactivate_user_invites: every active code of (u, g) is set inactive.
deactivate_user_invites(u, g) ==
  [code \in DOMAIN invites |->
     IF code \in ActiveCodes(u, g)
     THEN [invites[code] EXCEPT !.active = FALSE] ELSE invites[code]]

\* generate_invite_code: a code no invite carries yet.
generate_invite_code == codes + 1

\* The record of an invitation or verification handler invocation; attempt is
\* the number verify_answer counted for the submission (0: it counted none).
VLast(op, u, g, code, text, res) ==
  [op |-> op, user |-> u, group |-> g, code |-> code, text |-> text,
   result |-> res, attempt |-> 0]

\* /invite by u in group g
cmd_invite(u, g) ==
  /\ DispatcherIdle
  /\ codes < MaxCodes
  /\ user_cache' = IF impl = "modular" THEN user_cache \cup {u} ELSE user_cache
  /\ last_active' = Created(IF impl = "modular" THEN user_cache \cup {u} ELSE user_cache)
  /\ IF is_blacklisted(u) THEN
       /\ UNCHANGED <<invites, codes>>
       /\ vlast' = VLast("invite", u, g, NoCode, <<>>, "blocked")
     ELSE IF ActiveCodes(u, g) # {} THEN
       /\ UNCHANGED <<invites, codes>>
       /\ vlast' = VLast("invite", u, g, NoCode, <<>>, "existing")
     ELSE
       /\ invites' = With(invites, generate_invite_code, NewInvite(u, g))
       /\ codes' = codes + 1
       /\ vlast' = VLast("invite", u, g, generate_invite_code, <<>>, "created")
  /\ UNCHANGED <<relationships, verifications, blacklisted_until, link_waiting,
                 challenges, submissions>>
  /\ UNCHANGED <<impl, now, ticks, wager_vars, cascade_vars, level_vars, profile_vars>>

\* /newinvite by u in group g
cmd_newinvite(u, g) ==
  /\ DispatcherIdle
  /\ codes < MaxCodes
  /\ user_cache' = IF impl = "modular" THEN user_cache \cup {u} ELSE user_cache
  /\ last_active' = Created(IF impl = "modular" THEN user_cache \cup {u} ELSE user_cache)
  /\ IF is_blacklisted(u) THEN
       /\ UNCHANGED <<invites, codes>>
       /\ vlast' = VLast("newinvite", u, g, NoCode, <<>>, "blocked")
     ELSE
       /\ invites' = With(deactivate_user_invites(u, g), generate_invite_code,
                          NewInvite(u, g))
       /\ codes' = codes + 1
       /\ vlast' = VLast("newinvite", u, g, generate_invite_code, <<>>,
                         "created")
  /\ UNCHANGED <<relationships, verifications, blacklisted_until, link_waiting,
                 challenges, submissions>>
  /\ UNCHANGED <<impl, now, ticks, wager_vars, cascade_vars, level_vars, profile_vars>>

\* -------------------------------------------------------- verification
\* A check for a recorded parent that finds none.
existing_inviter_never(u) == FALSE

\* InviteManager.get_inviter(user_id) is set; user_id in
\* bot_data["relationships"]
existing_inviter(u) == u \in DOMAIN relationships

\* A /start that does not look at the owner of the code.
StartRefusalOwnCodeAllowed(u, code) ==
  IF ~(code \in DOMAIN invites /\ invites[code].active) THEN "inactive"
  ELSE IF existing_inviter(u) THEN "linked"
  ELSE ""

\* Why /start <code> by u issues no challenge ("" when it issues one).
\* roombot.cmd_start: unknown, deactivated, already joined through this
\* inviter, own code. CommandHandlers._handle_invite_code: not active, own
\* code, already has an inviter.
StartRefusal(u, code) ==
  IF impl = "roombot" THEN
    IF code \notin DOMAIN invites THEN "unknown"
    ELSE IF ~invites[code].active THEN "inactive"
    ELSE IF u \in DOMAIN relationships
            /\ relationships[u] = invites[code].inviter_id THEN "linked"
    ELSE IF invites[code].inviter_id = u THEN "self"
    ELSE ""
  ELSE
    IF ~(code \in DOMAIN invites /\ invites[code].active) THEN "inactive"
    ELSE IF invites[code].inviter_id = u THEN "self"
    ELSE IF existing_inviter(u) THEN "linked"
    ELSE ""

\* /start <code> by u, in private; `selected` is the emoji sample drawn
cmd_start(u, code, selected) ==
  /\ DispatcherIdle
  /\ challenges < MaxChallenges
  /\ user_cache' = IF impl = "modular" THEN user_cache \cup {u} ELSE user_cache
  /\ last_active' = Created(IF impl = "modular" THEN user_cache \cup {u} ELSE user_cache)
  /\ IF StartRefusal(u, code) # "" THEN
       /\ UNCHANGED <<verifications, challenges>>
       /\ vlast' = VLast("start", u, NoCode, code, <<>>, StartRefusal(u, code))
     ELSE IF is_blacklisted(u) THEN
       /\ verifications' = create_verification(u, code, selected)
       /\ UNCHANGED challenges
       /\ vlast' = VLast("start", u, NoCode, code, <<>>, "blocked")
     ELSE
       /\ verifications' = create_verification(u, code, selected)
       /\ challenges' = challenges + 1
       /\ vlast' = VLast("start", u, NoCode, code, <<>>, "issued")
  /\ UNCHANGED <<invites, relationships, blacklisted_until, link_waiting,
                 codes, submissions>>
  /\ UNCHANGED <<impl, now, ticks, wager_vars, cascade_vars, level_vars, profile_vars>>

\* A private message `text` by u, up to the await of create_chat_invite_link
handle_private_message(u, text) ==
  LET r == verify_answer(u, text)
      n == IF u \in DOMAIN verifications /\ ~VerificationExpired(verifications[u])
           THEN verifications[u].attempts + 1 ELSE 0
      Answer(code, res) ==
        [VLast("answer", u, NoCode, code, text, res) EXCEPT !.attempt = n]
      cache == IF impl = "modular" THEN user_cache \cup {u} ELSE user_cache
  IN
  /\ DispatcherIdle
  /\ submissions < MaxSubmissions
  /\ submissions' = submissions + 1
  /\ user_cache' = cache
  /\ verifications' = r.verifications
  /\ blacklisted_until' = r.blacklisted_until
  /\ IF ~r.verified THEN
       /\ UNCHANGED link_waiting
       /\ vlast' = Answer(NoCode, "not_verified")
       \* "elif not verified and user_id in verifications: ... else:
       \* track_activity(user_id)"
       /\ IF u \in DOMAIN r.verifications
          THEN NoActivity(cache) ELSE TrackActivity(u, cache)
     ELSE IF existing_inviter(u) THEN
       /\ UNCHANGED link_waiting
       /\ vlast' = Answer(r.invite_code, "linked")
       /\ NoActivity(cache)
     ELSE
       /\ link_waiting' = {[user_id |-> u, invite_code |-> r.invite_code]}
       /\ vlast' = Answer(r.invite_code, "verified")
       /\ NoActivity(cache)
  /\ UNCHANGED <<invites, relationships, codes, challenges>>
  /\ UNCHANGED <<impl, now, ticks, cascade_vars, wagers_won, wagers_lost,
                 stat_vars>>
  /\ UNCHANGED <<points, pending_wagers, xp_awarded, created, issued,
                 terminal, attempts, ledger, last>>

\* InviteManager.use_invite
use_invite(code, u) ==
  IF \E i \in 1..Len(invites[code].used_by_list) :
       invites[code].used_by_list[i] = u
  THEN [invites |-> invites, relationships |-> relationships]
  ELSE [invites |->
          [invites EXCEPT ![code].used_by_list = Append(@, u),
                          ![code].total_uses = @ + 1],
        relationships |-> With(relationships, u, invites[code].inviter_id)]

\* A record of the use that forgets to count it.
roombot_record_use_uncounted(code, u) ==
  [invites |-> [invites EXCEPT ![code].used_by_list = Append(@, u)],
   relationships |-> With(relationships, u, invites[code].inviter_id)]

\* roombot.handle_private_message after the await
roombot_record_use(code, u) ==
  [invites |->
     [invites EXCEPT ![code].total_uses = @ + 1,
                     ![code].used_by_list = Append(@, u)],
   relationships |-> With(relationships, u, invites[code].inviter_id)]

\* The suspended handler resumes: the link was created (ok), or
\* create_chat_invite_link raised and the except branch replied.
link_created(ok) ==
  \E h \in link_waiting :
    LET u == h.user_id
        code == h.invite_code
        r == IF impl = "roombot" THEN roombot_record_use(code, u)
             ELSE use_invite(code, u)
    IN
    /\ link_waiting' = {}
    /\ IF ok THEN
         /\ invites' = r.invites
         /\ relationships' = r.relationships
         /\ vlast' = VLast("link", u, NoCode, code, <<>>, "joined")
       ELSE
         /\ UNCHANGED <<invites, relationships>>
         /\ vlast' = VLast("link", u, NoCode, code, <<>>, "no_link")
    /\ UNCHANGED <<verifications, blacklisted_until, codes, challenges,
                   submissions>>
    /\ UNCHANGED <<impl, now, ticks, session_vars, wager_vars, cascade_vars, level_vars, profile_vars>>

\* The account reached from u by following k parent pointers (NoUser when the
\* chain ends earlier).
RECURSIVE AncestorAt(_, _)
AncestorAt(u, k) ==
  IF k = 0 THEN u
  ELSE IF u \notin DOMAIN relationships THEN NoUser
  ELSE AncestorAt(relationships[u], k - 1)

\* ------------------------------------------------------------- cascade
\* INVITE_BASE_POINTS: 1 in roombot.py, 10 in config.py
INVITE_BASE_POINTS == IF impl = "roombot" THEN Point ELSE 10 * Point

\* streak_bonus, in tenths: 1 + invite_streak * STREAK_BONUS_MULTIPLIER; the
\* modular bot applies it only when the direct inviter has session data.
BonusOf(n) == 10 + n * STREAK_BONUS_TENTHS

streak_bonus(u) ==
  IF impl = "modular" /\ u \notin user_cache THEN 10
  ELSE BonusOf(invite_streak[u])

\* a loop test that keeps the depth limit and drops the 0.01 floor
CascadeContinuesNoFloor(current_points, depth) == depth < MAX_DEPTH

\* "while current_id and current_points >= 0.01 and depth < max_depth"
CascadeContinues(current_points, depth) ==
  current_points >= MIN_CASCADE * Cent /\ depth < MAX_DEPTH

\* The while loop of award_points_cascade / _award_cascade_points: award
\* current_points to current_id, then go to its parent with half the amount.
\* credits lists the award_points calls that found an account to credit.
\* (Cent makes every half exact: the loop halves at most MAX_DEPTH - 1 times.)
\* cache is the session cache of the modular bot at the time of the loop.
RECURSIVE CascadeLoop(_, _, _, _, _, _)
CascadeLoop(cache, pts, credits, current_id, current_points, depth) ==
  IF ~CascadeContinues(current_points, depth)
  THEN [points |-> pts, credits |-> credits]
  ELSE
    LET awarded == impl = "roombot" \/ current_id \in cache
        pts2 == IF impl = "roombot"
                THEN Credit(pts, current_id, current_points)
                ELSE award_points(pts, cache, current_id, current_points)
        credits2 ==
          IF awarded
          THEN Append(credits, [user |-> current_id, depth |-> depth,
                                amount |-> current_points])
          ELSE credits
    IN  IF current_id \in DOMAIN relationships
        THEN CascadeLoop(cache, pts2, credits2, relationships[current_id],
                         current_points \div 2, depth + 1)
        ELSE [points |-> pts2, credits |-> credits2]

\* award_points_cascade(user_id, INVITE_BASE_POINTS) for the direct inviter
\* u, as handle_new_member calls it
award_points_cascade(u) ==
  LET base == INVITE_BASE_POINTS
      r == CascadeLoop(user_cache, points, <<>>, u,
                       (base * streak_bonus(u)) \div 10, 0)
  IN
  /\ DispatcherIdle
  /\ cascades < MaxCascades
  /\ points' = r.points
  /\ ledger' = Add(ledger, [v \in Users |-> points'[v] - points[v]])
  /\ cascades' = cascades + 1
  /\ cascade' = [op |-> "cascade", user |-> u, base |-> base,
                 streak |-> invite_streak[u], credits |-> r.credits]
  /\ UNCHANGED <<impl, now, ticks, session_vars, invite_streak, network_vars>>
  /\ UNCHANGED <<level_vars, profile_vars>>
  /\ UNCHANGED <<pending_wagers, total_xp_key, xp_awarded, created, issued,
                 terminal, attempts, last>>

\* ---------------------------------------------------------- new members
\* A heat score without the cut-off after 24 hours.
calculate_heat_score_uncut(u) ==
  (invites_successful[u] * (86400 - (now - last_invite_success[u])) * 100)
    \div 86400

\* round(n / d): the nearest integer, the even one of two equally near
RoundDiv(n, d) ==
  LET q == n \div d
      r == n % d
  IN  IF 2 * r < d THEN q
      ELSE IF 2 * r > d THEN q + 1
      ELSE IF q % 2 = 0 THEN q ELSE q + 1

\* calculate_heat_score, in hundredths: round(invites_successful *
\* (24 - hours_since) / 24, 2), and 0.0 after more than 24 hours
calculate_heat_score(u) ==
  LET since == now - last_invite_success[u]
      window == HEAT_DECAY_HOURS * 3600
  IN  IF impl = "modular" /\ u \notin user_cache THEN 0
      ELSE IF since > window THEN 0
      ELSE RoundDiv(invites_successful[u] * (window - since) * 100, window)

\* update_invite_streak: the streak it leaves for a streak n whose last
\* success was at time t
update_invite_streak(n, t) == IF now - t < STREAK_WINDOW THEN n + 1 ELSE 1

\* _process_successful_invite: "invite_streak = get('invite_streak', 0) + 1"
process_invite_streak(n, t) == n + 1

\* The loop of check_milestones over MILESTONE_ANNOUNCES from index i on:
\* the list it leaves and the thresholds it announced.
RECURSIVE MilestoneLoop(_, _, _, _)
MilestoneLoop(i, successful, reached, hit) ==
  IF i > Len(MILESTONE_ANNOUNCES) THEN [reached |-> reached, hit |-> hit]
  ELSE LET milestone == MILESTONE_ANNOUNCES[i] IN
       IF /\ successful >= milestone
          /\ \A k \in 1..Len(reached) : reached[k] # milestone
       THEN MilestoneLoop(i + 1, successful, Append(reached, milestone),
                          Append(hit, milestone))
       ELSE MilestoneLoop(i + 1, successful, reached, hit)

\* A check that announces every threshold the count has reached, recorded
\* or not.
check_milestones_replay(successful, reached) ==
  LET hit == SelectSeq(MILESTONE_ANNOUNCES, LAMBDA x : successful >= x)
  IN  [reached |-> reached \o hit, hit |-> hit]

check_milestones(successful, reached) ==
  MilestoneLoop(1, successful, reached, <<>>)

\* roombot.py never creates the key "milestones_reached" of a record: its
\* check_milestones raises KeyError at the first threshold that the count
\* has reached.
MilestonesKeyError(successful) ==
  /\ impl = "roombot"
  /\ \E k \in 1..Len(MILESTONE_ANNOUNCES) :
       successful >= MILESTONE_ANNOUNCES[k]

\* handle_new_member for the event of one member m joining a group.
\* message_handlers.py does not import time: with a session of the inviter,
\* _process_successful_invite counts the invite and the streak and then
\* raises NameError at "last_invite_success = time.time()", before the
\* cascade; without one it goes on to the cascade, which credits the
\* ancestors that have a session.
handle_new_member(m) ==
  LET cache == IF impl = "modular" THEN user_cache \cup {m} ELSE user_cache
      linked == m \in DOMAIN relationships
      inviter_id == relationships[m]
      has == impl = "roombot" \/ inviter_id \in cache
      streak ==
        IF impl = "roombot"
        THEN update_invite_streak(invite_streak[inviter_id],
                                  last_invite_success[inviter_id])
        ELSE IF has
        THEN process_invite_streak(invite_streak[inviter_id],
                                   last_invite_success[inviter_id])
        ELSE invite_streak[inviter_id]
      base == INVITE_BASE_POINTS
      bonus == IF has THEN BonusOf(streak) ELSE 10
      r == CascadeLoop(cache, points, <<>>, inviter_id,
                       (base * bonus) \div 10, 0)
      successful == IF has THEN invites_successful[inviter_id] + 1
                    ELSE invites_successful[inviter_id]
      Join(i, result) ==
        [op |-> "join", user |-> m, inviter |-> i, result |-> result]
  IN
  /\ DispatcherIdle
  /\ joins < MaxJoins
  /\ joins' = joins + 1
  /\ user_cache' = cache
  /\ last_active' = Created(cache)
  /\ UNCHANGED milestones_reached
  /\ IF ~linked THEN
       /\ UNCHANGED <<points, ledger, cascade_vars, last_invite_success,
                      invites_successful, rewarded>>
       /\ plast' = Join(NoUser, "none")
     ELSE IF impl = "modular" /\ has THEN
       /\ invites_successful' =
            [invites_successful EXCEPT ![inviter_id] = successful]
       /\ invite_streak' = [invite_streak EXCEPT ![inviter_id] = streak]
       /\ UNCHANGED <<points, ledger, cascades, cascade,
                      last_invite_success, rewarded>>
       /\ plast' = Join(inviter_id, "error")
     ELSE
       /\ invite_streak' = [invite_streak EXCEPT ![inviter_id] = streak]
       /\ last_invite_success' =
            IF has THEN [last_invite_success EXCEPT ![inviter_id] = now]
            ELSE last_invite_success
       /\ points' = r.points
       /\ ledger' = Add(ledger, [v \in Users |-> points'[v] - points[v]])
       /\ cascades' = cascades + 1
       /\ cascade' = [op |-> "cascade", user |-> inviter_id, base |-> base,
                      streak |-> streak, credits |-> r.credits]
       /\ invites_successful' =
            [invites_successful EXCEPT ![inviter_id] = successful]
       /\ rewarded' = rewarded \cup {m}
       \* check_milestones: KeyError in roombot.py once a threshold is
       \* reached, a return without a session in the modular bot
       /\ plast' = Join(inviter_id, IF MilestonesKeyError(successful)
                                    THEN "error" ELSE "ok")
  /\ UNCHANGED <<impl, now, ticks, network_vars, level_vars, activity_vars,
                 last_daily_bonus>>
  /\ UNCHANGED <<pending_wagers, total_xp_key, xp_awarded, created, issued,
                 terminal, attempts, last>>

\* _check_milestones(inviter_id, ...) / check_milestones(user_id, ...) on
\* the record of u
check_milestones_call(u) ==
  LET ms == check_milestones(invites_successful[u], milestones_reached[u])
      ran == impl = "modular" /\ u \in user_cache
  IN
  /\ DispatcherIdle
  /\ milestones_reached' =
       IF ran THEN [milestones_reached EXCEPT ![u] = ms.reached]
       ELSE milestones_reached
  /\ plast' = [op |-> "milestones", user |-> u,
               hit |-> IF ran THEN ms.hit ELSE <<>>,
               result |-> IF MilestonesKeyError(invites_successful[u])
                          THEN "error" ELSE "ok"]
  /\ UNCHANGED <<impl, now, ticks, session_vars, wager_vars, network_vars,
                 cascade_vars, level_vars, activity_vars>>
  /\ UNCHANGED <<last_daily_bonus, last_invite_success, invites_successful,
                 joins, rewarded>>

\* handle_member_left for member m: half the base is taken from the inviter
handle_member_left(m) ==
  LET inviter_id == relationships[m]
      penalty == INVITE_BASE_POINTS \div 2
      left == IF points[inviter_id] - penalty > 0
              THEN points[inviter_id] - penalty ELSE 0
  IN
  /\ DispatcherIdle
  /\ m \in DOMAIN relationships
  /\ points' = [points EXCEPT ![inviter_id] =
                  IF impl = "roombot" THEN left ELSE IntCast(left)]
  /\ ledger' = Add(ledger, [v \in Users |-> points'[v] - points[v]])
  /\ plast' = [op |-> "left", user |-> m, inviter |-> inviter_id]
  /\ UNCHANGED <<impl, now, ticks, session_vars, network_vars, cascade_vars,
                 level_vars, activity_vars, stat_vars>>
  /\ UNCHANGED <<pending_wagers, total_xp_key, xp_awarded, created, issued,
                 terminal, attempts, last>>

\* /daily: the daily bonus of points and XP, once in 24 hours
cmd_daily(u) ==
  LET cache == IF impl = "modular" THEN user_cache \cup {u} ELSE user_cache
      streak_bonus_days == IF days_active[u] < 30 THEN days_active[u] ELSE 30
      total_bonus == (10 + level[u] * 2 + streak_bonus_days) * Point
      up == check_level_up(xp[u] + ACTIVITY_XP_DAILY, level[u])
  IN
  /\ DispatcherIdle
  /\ user_cache' = cache
  /\ last_active' = Created(cache)
  /\ IF now - last_daily_bonus[u] < DAILY_BONUS_COOLDOWN THEN
       /\ UNCHANGED <<points, ledger, xp, level, last_daily_bonus,
                      total_xp_key>>
       /\ plast' = [op |-> "daily", user |-> u, result |-> "cooldown"]
     ELSE
       /\ points' = IF impl = "roombot" THEN Credit(points, u, total_bonus)
                    ELSE award_points(points, cache, u, total_bonus)
       /\ ledger' = Add(ledger, [v \in Users |-> points'[v] - points[v]])
       /\ xp' = [xp EXCEPT ![u] = up.xp]
       /\ level' = [level EXCEPT ![u] = up.level]
       /\ last_daily_bonus' = [last_daily_bonus EXCEPT ![u] = now]
       /\ total_xp_key' = IF impl = "roombot" THEN total_xp_key \cup {u}
                          ELSE total_xp_key
       /\ plast' = [op |-> "daily", user |-> u, result |-> "ok"]
  /\ UNCHANGED <<impl, now, ticks, network_vars, cascade_vars, wagers_won,
                 wagers_lost, activity_vars>>
  /\ UNCHANGED <<last_invite_success, invites_successful,
                 milestones_reached, joins, rewarded>>
  /\ UNCHANGED <<pending_wagers, xp_awarded, created, issued, terminal,
                 attempts, last>>

\* handle_group_message: a message of u in a group
handle_group_message(u) ==
  LET cache == IF impl = "modular" THEN user_cache \cup {u} ELSE user_cache
  IN
  /\ DispatcherIdle
  /\ user_cache' = cache
  /\ TrackActivity(u, cache)
  /\ UNCHANGED <<impl, now, ticks, network_vars, cascade_vars, wagers_won,
                 wagers_lost, stat_vars>>
  /\ UNCHANGED <<points, pending_wagers, xp_awarded, created, issued,
                 terminal, attempts, ledger, last>>

\* /profile: shows the level, the XP and the heat score of u
cmd_profile(u) ==
  LET cache == IF impl = "modular" THEN user_cache \cup {u} ELSE user_cache
  IN
  /\ DispatcherIdle
  /\ user_cache' = cache
  /\ last_active' = Created(cache)
  /\ plast' = [op |-> "profile", user |-> u, level |-> level[u],
               xp |-> xp[u], heat |-> calculate_heat_score(u)]
  /\ UNCHANGED <<impl, now, ticks, wager_vars, network_vars, cascade_vars,
                 level_vars, activity_vars, stat_vars>>

\* ------------------------------------------------------- specifications
NextRoombot ==
  \/ \E d \in TimeSteps : Advance(d)
  \/ \E c \in Challengers, x \in StakeInputs : roombot_cmd_wager(c, x)
  \/ \E u \in Actors, a \in Actions, id \in DOMAIN issued :
       roombot_handle_callback_query(u, a, id)

NextModular ==
  \/ \E d \in TimeSteps : Advance(d)
  \/ \E c \in Challengers, x \in StakeInputs : handlers_cmd_wager(c, x)
  \/ \E u \in Actors, a \in Actions, id \in DOMAIN issued :
       callbacks_handle_callback_query(u, a, id)
  \/ main_start_cleanup_task

\* The wager engine of both implementations.
NextWager ==
  \/ \E d \in TimeSteps : Advance(d)
  \/ \E c \in Challengers, x \in StakeInputs : roombot_cmd_wager(c, x)
  \/ \E u \in Actors, a \in Actions, id \in DOMAIN issued :
       roombot_handle_callback_query(u, a, id)
  \/ \E c \in Challengers, x \in StakeInputs : handlers_cmd_wager(c, x)
  \/ \E u \in Actors, a \in Actions, id \in DOMAIN issued :
       callbacks_handle_callback_query(u, a, id)
  \/ main_start_cleanup_task

SpecWager == Init /\ [][NextWager]_vars

\* Verification: account 1 owns the invite, account 2 is the candidate.
Owners == {1}
Candidates == {2}

NextVerification ==
  \/ \E d \in VerificationTimeSteps : Advance(d)
  \/ \E u \in Owners, g \in Groups : cmd_invite(u, g)
  \/ \E u \in Candidates, code \in 1..MaxCodes, selected \in Samples :
       cmd_start(u, code, selected)
  \/ \E u \in Candidates, text \in Texts : handle_private_message(u, text)
  \/ \E ok \in BOOLEAN : link_created(ok)
  \/ main_start_cleanup_task

InitNetwork == Init /\ total_xp_key \in {Users, {}}

SpecVerification == InitNetwork /\ [][NextVerification]_vars

\* Invitations: every account invites and redeems; one emoji sample, answered
\* right or wrong.
InviteSamples == {<<1, 2, 3, 4>>}
InviteTexts == {<<1, 2, 3, 4>>, <<2, 1, 3, 4>>}

NextInvite ==
  \/ \E u \in Actors, g \in Groups : cmd_invite(u, g)
  \/ \E u \in Actors, g \in Groups : cmd_newinvite(u, g)
  \/ \E u \in Actors, code \in 1..MaxCodes, selected \in InviteSamples :
       cmd_start(u, code, selected)
  \* private messages that answer a challenge
  \/ \E u \in DOMAIN verifications, text \in InviteTexts :
       u \in Actors /\ handle_private_message(u, text)
  \/ \E ok \in BOOLEAN : link_created(ok)

SpecInvite == InitNetwork /\ [][NextInvite]_vars

\* The cascade on invite trees of up to five accounts: no relationship, a chain
\* 5 -> 4 -> 3 -> 2 -> 1, two children of one parent, and the cycle 1 -> 2 -> 1
\* that two mutual redemptions leave. The streak is the 0 of a fresh record or
\* what two and four successful invites within 24 hours leave.
Streaks == {0, 2, 4}
Trees ==
  {[x \in {} |-> 0], [x \in 2..5 |-> x - 1], [x \in {2, 3} |-> 1],
   [x \in {1, 2} |-> 3 - x]}

InitCascade ==
  /\ InitBase
  /\ InitLevels
  /\ InitProfile
  /\ total_xp_key \in {Users, {}}
  /\ user_cache \in (IF impl = "modular" THEN {Users, {}} ELSE {{}})
  /\ relationships \in Trees
  /\ invite_streak \in {[u \in Users |-> n] : n \in Streaks}

NextCascade == \E u \in Users : award_points_cascade(u)

SpecCascade == InitCascade /\ [][NextCascade]_vars

\* Invitations and verification, of both implementations.
NextNetwork ==
  \/ \E d \in VerificationTimeSteps : Advance(d)
  \/ \E u \in Actors, g \in Groups : cmd_invite(u, g)
  \/ \E u \in Actors, g \in Groups : cmd_newinvite(u, g)
  \/ \E u \in Actors, code \in 1..MaxCodes, selected \in Samples :
       cmd_start(u, code, selected)
  \/ \E u \in Actors, text \in Texts : handle_private_message(u, text)
  \/ \E ok \in BOOLEAN : link_created(ok)
  \/ main_start_cleanup_task
  \/ \E u \in Users : award_points_cascade(u)

\* Membership events, group messages and the profile commands.
NextMembers ==
  \/ \E m \in Actors : handle_new_member(m)
  \/ \E m \in Actors : handle_member_left(m)
  \/ \E u \in Actors : handle_group_message(u)
  \/ \E u \in Actors : cmd_daily(u)
  \/ \E u \in Actors : cmd_profile(u)
  \/ \E u \in Actors : check_milestones_call(u)

Next ==
  \/ NextWager
  \/ NextNetwork
  \/ NextMembers

\* Both implementations.
Spec == Init /\ [][Next]_vars

\* src/roombot.py alone, and the modular bot of src/main.py alone.
\* The inviter's record before the joins: no invite yet; 4 invites, the last
\* one two days ago; 9 and 24 invites, the last one an hour ago. The list of
\* milestones is the one the modular bot has recorded by then.
InviterRecords ==
  {[invites_successful |-> 0, invite_streak |-> 0,
    last_invite_success |-> EPOCH, milestones_reached |-> <<>>],
   [invites_successful |-> 4, invite_streak |-> 1,
    last_invite_success |-> -172800, milestones_reached |-> <<>>],
   [invites_successful |-> 9, invite_streak |-> 2,
    last_invite_success |-> -3600, milestones_reached |-> <<>>],
   [invites_successful |-> 24, invite_streak |-> 3,
    last_invite_success |-> -3600, milestones_reached |-> <<10>>]}

JoinTrees == {[x \in {2, 3} |-> 1], [x \in {2, 3} |-> x - 1]}

JoinTimeSteps == {43200, 86399, 86400}

\* Accounts 2 and 3 have redeemed an invite; account 1 is an inviter with
\* one of the records above (a modular bot that has no session of account 1
\* has no record of it either).
InitJoin ==
  /\ InitBase
  /\ InitLevels
  /\ InitActivity
  /\ InitHistory
  /\ relationships \in JoinTrees
  /\ user_cache \in (IF impl = "modular" THEN {{1}, {}} ELSE {{}})
  /\ \E rec \in InviterRecords :
       /\ (impl = "modular" /\ user_cache = {})
            => rec.invites_successful = 0
       /\ invite_streak = [u \in Users |->
            IF u = 1 THEN rec.invite_streak ELSE 0]
       /\ last_invite_success = [u \in Users |->
            IF u = 1 THEN rec.last_invite_success ELSE EPOCH]
       /\ invites_successful = [u \in Users |->
            IF u = 1 THEN rec.invites_successful ELSE 0]
       /\ milestones_reached = [u \in Users |->
            IF u = 1 /\ impl = "modular" THEN rec.milestones_reached
            ELSE <<>>]

NextJoin ==
  \/ \E d \in JoinTimeSteps : Advance(d)
  \/ \E m \in Actors : handle_new_member(m)
  \/ \E m \in Candidates : handle_member_left(m)
  \/ \E u \in Owners : cmd_profile(u)
  \/ \E u \in Owners : check_milestones_call(u)

SpecJoin == InitJoin /\ [][NextJoin]_vars

\* The record of account 2 before the run: new; one counted message 29 or
\* 30 seconds ago; 99 days with one counted message each, the last one a
\* day ago; level 10 just below its threshold.
ActivityRecords ==
  {[xp |-> 0, level |-> 1, messages_sent |-> 0, days_active |-> 0,
    last_message_xp |-> EPOCH, days |-> {}],
   [xp |-> 1, level |-> 1, messages_sent |-> 1, days_active |-> 1,
    last_message_xp |-> -29, days |-> {date(-29)}],
   [xp |-> 1, level |-> 1, messages_sent |-> 1, days_active |-> 1,
    last_message_xp |-> -30, days |-> {date(-30)}],
   [xp |-> 99, level |-> 1, messages_sent |-> 99, days_active |-> 99,
    last_message_xp |-> -86400,
    days |-> {date(-86400) - k : k \in 0..98}],
   [xp |-> 1950, level |-> 10, messages_sent |-> 1, days_active |-> 1,
    last_message_xp |-> -86400, days |-> {date(-86400)}]}

\* /wager 1000 and /wager 100
LevelStakes == {1000000, 100000}

LevelPoints == {1000 * Point}

\* The clock moves within the cooldown, to its end, and past midnight.
ActivityTimeSteps == {MESSAGE_COOLDOWN - 1, MESSAGE_COOLDOWN, 60}

InitActivityRun ==
  /\ points \in [Users -> LevelPoints]
  /\ InitCore
  /\ InitStats
  /\ InitHistory
  /\ relationships = [x \in {} |-> 0]
  /\ invite_streak = [u \in Users |-> 0]
  /\ wagers_won = [u \in Users |-> 0]
  /\ wagers_lost = [u \in Users |-> 0]
  /\ last_daily_bonus = [u \in Users |-> EPOCH]
  /\ \E rec \in ActivityRecords :
       /\ user_cache = IF impl = "modular" /\ rec.messages_sent > 0
                       THEN {2} ELSE {}
       /\ xp = [u \in Users |-> IF u = 2 THEN rec.xp ELSE 0]
       /\ level = [u \in Users |-> IF u = 2 THEN rec.level ELSE 1]
       /\ messages_sent = [u \in Users |->
            IF u = 2 THEN rec.messages_sent ELSE 0]
       /\ days_active = [u \in Users |->
            IF u = 2 THEN rec.days_active ELSE 0]
       /\ last_message_xp = [u \in Users |->
            IF u = 2 THEN rec.last_message_xp ELSE EPOCH]
       /\ activity_tracking = [u \in Users |->
            IF u = 2 THEN rec.days ELSE {}]
       /\ last_active = [u \in Users |->
            IF u = 2 /\ rec.messages_sent > 0 THEN rec.last_message_xp
            ELSE 0]

NextActivity ==
  \/ \E d \in ActivityTimeSteps : Advance(d)
  \/ \E u \in Candidates : handle_group_message(u)
  \/ \E u \in Candidates : cmd_daily(u)
  \/ \E c \in Owners, x \in LevelStakes : roombot_cmd_wager(c, x)
  \/ \E u \in Candidates, a \in Actions, id \in DOMAIN issued :
       roombot_handle_callback_query(u, a, id)
  \/ \E c \in Owners, x \in LevelStakes : handlers_cmd_wager(c, x)
  \/ \E u \in Candidates, a \in Actions, id \in DOMAIN issued :
       callbacks_handle_callback_query(u, a, id)

SpecActivity == InitActivityRun /\ [][NextActivity]_vars

\* The periodic task of the modular bot next to wagers and challenges:
\* accounts 1 and 2 stake, account 1 owns the invite, account 2 is the
\* candidate; one clock step takes a wager (60 s) or both a wager and a
\* challenge (300 s) past their expiry.
SweepStakes == {500, 1000}
SweepTimeSteps == {WAGER_EXPIRY + 1, VERIFICATION_TIMEOUT + 1}

InitSweep == Init /\ impl = "modular"

NextSweep ==
  \/ \E d \in SweepTimeSteps : Advance(d)
  \/ \E c \in Challengers, x \in SweepStakes : handlers_cmd_wager(c, x)
  \/ \E u \in Challengers, id \in DOMAIN issued :
       callbacks_handle_callback_query(u, "accept", id)
  \/ \E u \in Owners, g \in Groups : cmd_invite(u, g)
  \/ \E u \in Candidates, code \in 1..MaxCodes, selected \in InviteSamples :
       cmd_start(u, code, selected)
  \/ main_start_cleanup_task

SpecSweep == InitSweep /\ [][NextSweep]_vars

\* Wagers under a clock that keeps running: time passes while a stored wager
\* has not expired yet, the periodic task of the modular bot keeps running,
\* and a stored expired wager has one of its buttons pressed sooner or later.
LiveStakes == {1000}
LiveSteps == {WAGER_EXPIRY + 1}
LiveTimes == {0, WAGER_EXPIRY + 1, 2 * (WAGER_EXPIRY + 1)}
LiveIds == {WagerId(t, c) : t \in LiveTimes, c \in Challengers}

\* time.time() grows by d seconds
TimePasses(d) ==
  /\ \E id \in DOMAIN pending_wagers : now <= pending_wagers[id].expires_at
  /\ now' = now + d
  /\ UNCHANGED <<impl, ticks, points, pending_wagers, session_vars,
                 total_xp_key, xp_awarded, created, issued, terminal,
                 attempts, ledger, last>>
  /\ UNCHANGED <<network_vars, cascade_vars, level_vars, profile_vars>>

\* A button of the stored, expired wager id is pressed by somebody.
ExpiredPress(id) ==
  /\ id \in DOMAIN pending_wagers
  /\ Expired(pending_wagers[id])
  /\ \E u \in Challengers, a \in Actions :
       \/ roombot_handle_callback_query(u, a, id)
       \/ callbacks_handle_callback_query(u, a, id)

NextLive ==
  \/ \E d \in LiveSteps : TimePasses(d)
  \/ \E c \in Challengers, x \in LiveStakes : roombot_cmd_wager(c, x)
  \/ \E u \in Challengers, a \in Actions, id \in DOMAIN issued :
       roombot_handle_callback_query(u, a, id)
  \/ \E c \in Challengers, x \in LiveStakes : handlers_cmd_wager(c, x)
  \/ \E u \in Challengers, a \in Actions, id \in DOMAIN issued :
       callbacks_handle_callback_query(u, a, id)
  \/ main_start_cleanup_task

SpecLive ==
  /\ Init
  /\ [][NextLive]_vars
  /\ WF_vars(\E d \in LiveSteps : TimePasses(d))
  /\ WF_vars(main_start_cleanup_task)
  /\ \A id \in LiveIds : WF_vars(ExpiredPress(id))

InitRoombot == Init /\ impl = "roombot"

InitModular == Init /\ impl = "modular"

SpecRoombot == InitRoombot /\ [][NextRoombot]_vars

SpecModular == InitModular /\ [][NextModular]_vars

\* ------------------------------------------------------------ properties

\* A step of a handler (the clock does not move inside one).
HandlerStep == now' = now

CreateOk == HandlerStep /\ created' = created + 1

\* The step settles, or cancels, the wager that the previous handler
\* invocation created: nothing but the clock has acted in between.
SettlesLastCreated ==
  /\ HandlerStep
  /\ last.op = "create" /\ last.result = "ok"
  /\ last'.op = "accept" /\ last'.result = "settled"
  /\ last'.wid = last.wid

CancelsLastCreated ==
  /\ HandlerStep
  /\ last.op = "create" /\ last.result = "ok"
  /\ last'.op = "cancel" /\ last'.result = "cancelled"
  /\ last'.wid = last.wid

\* C1: a wager is never paid out twice: once it has been accepted and
\* settled, no later cancel or expiry handling of the same wager id credits
\* anything to the challenger again.
C1_NoCreditAfterSettlement ==
  [][\A id \in DOMAIN issued :
       (/\ HandlerStep
        /\ <<id, "settled">> \in terminal
        /\ last'.wid = id
        /\ last'.result \in {"cancelled", "expired"})
       => points'[issued[id].challenger_id] <= points[issued[id].challenger_id]
    ]_vars

\* C2: when two different acceptors, each holding at least the stake, press
\* accept on one open wager before it expires, exactly one of the two attempts
\* settles it and the other is answered "already accepted" or finds no wager.
C2_ExactlyOneAcceptSettles ==
  \A id \in DOMAIN attempts :
    (Len(attempts[id]) = 2 /\ issued[id].points > 0) =>
      LET r1 == attempts[id][1][2]
          r2 == attempts[id][2][2]
      IN  \/ r1 = "settled" /\ r2 \in {"already_accepted", "gone"}
          \/ r2 = "settled" /\ r1 \in {"already_accepted", "gone"}

\* C3: when a created wager of stake s is accepted, the settlement leaves the
\* loser exactly s below and the winner exactly s above the balances they had
\* when the wager was created, whichever side the coin picks.
C3_SettlementMovesExactlyStake ==
  [][SettlesLastCreated =>
       LET c == last.user
           u == last'.user
           s == last.stake
           winner_id == last'.winner
           loser_id == IF winner_id = c THEN u ELSE c
       IN  /\ points'[winner_id] = last.pre[winner_id] + s
           /\ points'[loser_id] = last.pre[loser_id] - s]_vars

\* C4: settlement only redistributes: the challenger's and the acceptor's
\* balances add up, after the settlement, to what they added up to when the
\* wager was created, for both coin outcomes.
C4_SettlementConserves ==
  [][SettlesLastCreated =>
       points'[last.user] + points'[last'.user]
         = last.pre[last.user] + last.pre[last'.user]]_vars

\* C5: no account's balance is ever negative.
C5_BalanceNonNegative == \A u \in Users : points[u] >= 0

\* C6: no update of a balance is lost: every stored balance is the initial
\* balance plus everything the completed operations credited to it minus
\* everything they debited from it.
C6_NoLostUpdate == \A u \in Users : points[u] = ledger[u]

\* C7: a /wager that succeeds takes exactly the stake from the challenger and
\* stores one open wager of that stake; one that fails for lack of funds
\* stores no wager and leaves the balances as its sweep left them.
C7_CreateDebitsExactlyStake ==
  [][/\ CreateOk =>
          /\ points'[last'.user] = last'.pre[last'.user] - last'.stake
          /\ last'.wid \in DOMAIN pending_wagers'
          /\ pending_wagers'[last'.wid].points = last'.stake
          /\ ~pending_wagers'[last'.wid].accepted
     /\ (HandlerStep /\ last'.op = "create" /\ last'.result = "insufficient") =>
          /\ DOMAIN pending_wagers' \subseteq DOMAIN pending_wagers
          /\ \A u \in Users : points'[u] = points[u] + OpenStake(ExpiredIds, u)
    ]_vars

\* C8: every stored wager has a stake above 0 and at most 1000 points.
C8_StoredStakeInRange ==
  \A id \in DOMAIN pending_wagers :
    /\ 0 < pending_wagers[id].points
    /\ pending_wagers[id].points * 10 <= MAX_WAGER_MILLI * Cent

\* C9: /wager followed by the challenger's cancel, with no accept in between
\* and before expiry, gives every balance back its value before the create
\* and removes the wager, for whole and fractional stakes alike.
C9_CreateCancelIsIdentity ==
  [][CancelsLastCreated =>
       /\ points' = last.pre
       /\ last.wid \notin DOMAIN pending_wagers']_vars

\* The expired wagers a handler step deals with: all of them for /wager and
\* for the periodic task, the pressed one for a button.
HandledExpired ==
  IF last'.op \in {"create", "cleanup"} THEN ExpiredIds
  ELSE IF last'.result = "expired" THEN {last'.wid}
  ELSE {}

HandlesUnacceptedExpired ==
  /\ HandlerStep
  /\ \E id \in HandledExpired :
       ~pending_wagers[id].accepted /\ pending_wagers[id].points > 0

\* C10: whichever path handles an expired unaccepted wager (the sweep of
\* /wager, a button pressed after expires_at, the periodic task), the wager is
\* removed and the challenger's balance after the step holds the stake once
\* more - less the new stake when the step is the challenger's own /wager.
C10_ExpiredRefundedOnce ==
  [][HandlesUnacceptedExpired =>
       /\ \A id \in HandledExpired : id \notin DOMAIN pending_wagers'
       /\ \A u \in Users :
            points'[u] = points[u] + OpenStake(HandledExpired, u)
                         - (IF CreateOk /\ u = last'.user
                            THEN last'.stake ELSE 0)]_vars

\* C11: an accept pressed after the wager's expires_at never settles it: a
\* settlement, and any XP a duel awards, happen at a time no later than the
\* wager's expires_at; the late press draws no winner, awards no XP and leaves
\* the presser's balance as it was (the refund goes to the challenger).
C11_NoSettlementAfterExpiry ==
  [][HandlerStep =>
       /\ (last'.result = "settled" \/ xp_awarded' # xp_awarded) =>
            /\ last'.wid \in DOMAIN issued
            /\ now <= issued[last'.wid].expires_at
       /\ (last'.op = "accept" /\ last'.result = "expired") =>
            /\ now > issued[last'.wid].expires_at
            /\ last'.winner = NoUser
            /\ xp_awarded' = xp_awarded
            /\ last'.wid \notin DOMAIN pending_wagers'
            /\ last'.user # issued[last'.wid].challenger_id =>
                 points'[last'.user] = points[last'.user]]_vars

\* An acceptor who could afford the stake has pressed accept too late.
C11_LateAcceptSeen ==
  /\ last.op = "accept" /\ last.result = "expired"
  /\ last.wid \in DOMAIN issued
  /\ last.user # issued[last.wid].challenger_id
  /\ issued[last.wid].points > 0
  /\ points[last.user] >= issued[last.wid].points
  /\ now > issued[last.wid].expires_at

\* ---------------------------------------------- verification properties
\* A private message has been handled in this step.
AnswerStep == submissions' = submissions + 1

\* The text is not the stored answer, spaces ignored.
Wrong(text, verif) == Clean(text) # Clean(verif.answer)

\* C12: the third wrong submission to a challenge, each made no later than
\* its expires_at, sets blacklisted_until to the time of that submission plus
\* 24 hours and discards the challenge; a blocked account has no pending
\* challenge, and whatever it submits, the stored answer included, is answered
\* not-verified with no invite code and starts no join.
C12_ThirdWrongBlocks ==
  [][AnswerStep =>
       LET u == vlast'.user
           text == vlast'.text
       IN
       /\ (/\ u \in DOMAIN verifications
           /\ now <= verifications[u].expires_at
           /\ verifications[u].attempts = 2
           /\ Wrong(text, verifications[u])) =>
            /\ blacklisted_until'[u] = now + 86400
            /\ u \notin DOMAIN verifications'
            /\ vlast'.result = "not_verified"
            /\ vlast'.code = NoCode
       /\ now < blacklisted_until[u] =>
            /\ u \notin DOMAIN verifications
            /\ vlast'.result = "not_verified"
            /\ vlast'.code = NoCode
            /\ link_waiting' = {}
            /\ relationships' = relationships]_vars

\* A third wrong submission has just blocked the account.
C12_BlockedSeen ==
  /\ vlast.op = "answer"
  /\ vlast.attempt = 3
  /\ vlast.result = "not_verified"
  /\ blacklisted_until[vlast.user] = now + 86400
  /\ vlast.user \notin DOMAIN verifications

\* C13: a submission that equals the stored answer, made no later than the
\* challenge's expires_at, is verified on the first, second and third attempt
\* alike: it yields the invite code stored with the challenge, removes the
\* challenge and leaves blacklisted_until as it was.
C13_CorrectAnswerVerifies ==
  [][AnswerStep =>
       LET u == vlast'.user
           text == vlast'.text
       IN
       (/\ u \in DOMAIN verifications
        /\ now <= verifications[u].expires_at
        /\ verifications[u].attempts \in 0..2
        /\ ~Wrong(text, verifications[u])) =>
         /\ vlast'.result \in {"verified", "linked"}
         /\ vlast'.code = verifications[u].invite_code
         /\ u \notin DOMAIN verifications'
         /\ blacklisted_until' = blacklisted_until]_vars

\* The stored answer was given on the third attempt, after two wrong ones, and
\* the account is not blocked.
C13_ThirdAttemptVerified ==
  /\ vlast.op = "answer"
  /\ vlast.result = "verified"
  /\ vlast.attempt = 3
  /\ blacklisted_until[vlast.user] = 0
  /\ vlast.user \notin DOMAIN verifications

\* C14: a submission by an account with no pending challenge, or made later
\* than the challenge's expires_at, is answered not-verified with no invite
\* code; it counts no attempt and sets no blacklisted_until; the expired
\* challenge is discarded.
C14_NoChallengeOrExpired ==
  [][AnswerStep =>
       LET u == vlast'.user IN
       /\ u \notin DOMAIN verifications =>
            /\ vlast'.result = "not_verified"
            /\ vlast'.code = NoCode
            /\ vlast'.attempt = 0
            /\ verifications' = verifications
            /\ blacklisted_until' = blacklisted_until
       /\ (u \in DOMAIN verifications /\ now > verifications[u].expires_at) =>
            /\ vlast'.result = "not_verified"
            /\ vlast'.code = NoCode
            /\ vlast'.attempt = 0
            /\ verifications' = Without(verifications, u)
            /\ blacklisted_until' = blacklisted_until]_vars

\* The only submission to the only challenge was made one second after its
\* expires_at: no attempt was counted and the challenge is gone.
C14_ExpiredSeen ==
  /\ vlast.op = "answer"
  /\ vlast.result = "not_verified"
  /\ vlast.attempt = 0
  /\ submissions = 1
  /\ challenges = 1
  /\ now = 301
  /\ vlast.text \in Samples
  /\ vlast.user \notin DOMAIN verifications
  /\ blacklisted_until[vlast.user] = 0

\* A /start has been handled in this step: the clock and the wagers are left
\* alone, and the challenges change only by the one that is issued.
StartStep ==
  /\ vlast'.op = "start"
  /\ now' = now
  /\ pending_wagers' = pending_wagers
  /\ verifications' = verifications \/ challenges' = challenges + 1

\* C15: /start by an account with now < blacklisted_until issues nothing: no
\* challenge is created or replaced; from now = blacklisted_until on, a /start
\* with a redeemable code gives the account a fresh challenge again.
C15_BlockedGetsNoChallenge ==
  [][StartStep =>
       LET u == vlast'.user IN
       /\ now < blacklisted_until[u] =>
            /\ vlast'.result # "issued"
            /\ verifications' = verifications
            /\ u \notin DOMAIN verifications'
       /\ (now >= blacklisted_until[u] /\ StartRefusal(u, vlast'.code) = "") =>
            /\ vlast'.result = "issued"
            /\ u \in DOMAIN verifications'
            /\ verifications'[u].invite_code = vlast'.code
            /\ verifications'[u].attempts = 0
            /\ verifications'[u].expires_at = now + 300]_vars

\* A block has been set and its last second has passed: the account is
\* issued a challenge at the instant blacklisted_until.
C15_IssuedAfterBlock ==
  /\ vlast.op = "start"
  /\ vlast.result = "issued"
  /\ blacklisted_until[vlast.user] > 0
  /\ now = blacklisted_until[vlast.user]

\* -------------------------------------------------- invitation properties
\* C16: the relationship map is acyclic: following parent pointers from an
\* account never leads back to that account.
C16_RelationshipsAcyclic ==
  \A u \in Users : \A k \in 1..Cardinality(Users) : AncestorAt(u, k) # u

C18_RedeemsOnlyActiveInvite ==
  [][\A u \in Users :
       (u \in DOMAIN relationships' /\ u \notin DOMAIN relationships) =>
         \E h \in link_waiting :
           /\ h.user_id = u
           /\ h.invite_code \in DOMAIN invites
           /\ invites[h.invite_code].active]_vars

\* C19: before and after every step each (owner, group) pair has at most one
\* active invite; no invite record is ever removed, and a /newinvite that
\* issues a code changes the stored invites in nothing but the active flag of
\* the owner's previous code for that group: total_uses and the redeemer list
\* are kept.
C19_OneActiveInvite ==
  [][/\ \A u \in Users, g \in Groups :
          /\ Cardinality(ActiveCodes(u, g)) <= 1
          /\ Cardinality(ActiveCodes(u, g)') <= 1
     /\ DOMAIN invites \subseteq DOMAIN invites'
     /\ (vlast'.op = "newinvite" /\ codes' = codes + 1) =>
          /\ \A u \in Users, g \in Groups :
               (vlast'.user = u /\ vlast'.group = g) =>
                 ActiveCodes(u, g)' = {vlast'.code}
          /\ vlast'.code \notin DOMAIN invites
          /\ \A c \in DOMAIN invites :
               invites'[c] =
                 [invites[c] EXCEPT !.active =
                    @ /\ ~(/\ invites[c].inviter_id = vlast'.user
                           /\ invites[c].group_id = vlast'.group)]]_vars

\* /newinvite has replaced a code that had been redeemed: the old code is
\* kept, inactive, with its use counter and redeemer list.
C19_ReplacedSeen ==
  /\ vlast.op = "newinvite"
  /\ vlast.result = "created"
  /\ \E c \in DOMAIN invites :
       /\ c # vlast.code
       /\ invites[c].inviter_id = vlast.user
       /\ ~invites[c].active
       /\ invites[c].total_uses = 1
       /\ Len(invites[c].used_by_list) = 1
  /\ ActiveCodes(vlast.user, vlast.group) = {vlast.code}

\* ----------------------------------------------------- cascade properties
\* C20: in a cascade the account at depth d >= 1 above the direct inviter is
\* awarded base / 2^d, whatever the direct inviter's invite_streak.
C20_AncestorsGetHalvedBase ==
  cascade.op = "cascade" =>
    \A i \in 1..Len(cascade.credits) :
      LET c == cascade.credits[i] IN
      c.depth >= 1 => c.amount * 2^c.depth = cascade.base

\* C21: a cascade run with streak 0 from the bottom of a chain of 5 accounts
\* raises the balance of the account at depth d = 0..4 by exactly base / 2^d
\* (10, 5, 2.5, 1.25, 0.625 for base 10) and changes no other balance; every
\* account of the chain has its session data.
C21_ChainOfFiveExact ==
  [][(/\ cascades' = cascades + 1
      /\ impl = "modular" => user_cache = Users
      /\ cascade'.streak = 0
      /\ cascade'.user = 5
      /\ AncestorAt(5, 4) = 1) =>
       \A u \in Users :
         (points'[u] - points[u]) * 2^(5 - u) = cascade'.base]_vars

\* C29: a cascade credits at most 10 hops, at depths 0, 1, 2, ... in order and
\* below 10, never an amount under 0.01, each hop to the parent of the hop
\* before, and nothing above an account without a parent; this holds on a
\* cycle of relationships too.
C29_CascadeBounded ==
  cascade.op = "cascade" =>
    LET c == cascade.credits IN
    /\ Len(c) <= 10
    /\ \A i \in 1..Len(c) :
         /\ c[i].depth < 10
         /\ c[i].amount >= Cent
         /\ c[i].user = AncestorAt(cascade.user, c[i].depth)
         /\ i > 1 => c[i].depth > c[i - 1].depth

\* A cascade ran on the cycle 1 -> 2 -> 1 and credited ten hops.
C29_TenHopsOnCycle ==
  /\ cascade.op = "cascade"
  /\ AncestorAt(cascade.user, 2) = cascade.user
  /\ Len(cascade.credits) = 10
  /\ cascade.credits[10].depth = 9

\* A new-member event of a member with a recorded inviter whose record the
\* bot holds.
JoinStep ==
  /\ joins' = joins + 1
  /\ plast'.inviter # NoUser
  /\ impl = "modular" => plast'.inviter \in user_cache'

\* A call of check_milestones: it leaves "milestones" in plast and changes
\* at most the list of one account.
MilestonesStep ==
  /\ plast'.op = "milestones"
  /\ UNCHANGED <<now, joins, points, user_cache>>

\* C22: on each activated invite the direct inviter's streak becomes the old
\* streak + 1 if less than 24 hours have passed since its last success and 1
\* otherwise, the time of the last success becomes now, and the cascade
\* computes the amount of hop 0 from the new streak.
C22_StreakWithin24h ==
  [][JoinStep =>
       LET i == plast'.inviter IN
       /\ invite_streak'[i] =
            IF now - last_invite_success[i] < 24 * 3600
            THEN invite_streak[i] + 1 ELSE 1
       /\ last_invite_success'[i] = now
       /\ cascade'.credits[1].amount * 10 =
            cascade'.base * (10 + invite_streak'[i])]_vars

\* C23: the reward of a redeemed member is distributed at most once: a later
\* new-member event of a member whose join has already run the cascade
\* credits nobody and leaves every invites_successful as it is.
C23_RewardedOnce ==
  [][(joins' = joins + 1 /\ plast'.user \in rewarded) =>
       /\ points' = points
       /\ invites_successful' = invites_successful]_vars

\* A /profile: the only handler that leaves "profile" in plast and neither
\* moves the clock nor counts a join.
ProfileStep == plast'.op = "profile" /\ now' = now /\ joins' = joins

C26_MilestonesOnce ==
  [][MilestonesStep =>
       LET i == plast'.user
           hit == plast'.hit
           before == milestones_reached[i]
           after == milestones_reached'[i]
       IN
       /\ \A k \in 1..Len(hit) :
            /\ \A j \in 1..Len(before) : before[j] # hit[k]
            /\ \E j \in 1..Len(after) : after[j] = hit[k]
            /\ \A j \in 1..Len(hit) : hit[j] = hit[k] => j = k
       /\ \A j, k \in 1..Len(after) : after[j] = after[k] => j = k
       /\ plast'.result = "ok" =>
            check_milestones(invites_successful[i], after) =
              [reached |-> after, hit |-> <<>>]]_vars

\* A second call for an account at 10 invites announced nothing: its list
\* already held the threshold 10.
C26_TenNotAnnouncedAgain ==
  /\ plast.op = "milestones"
  /\ plast.user = 1
  /\ plast.hit = <<>>
  /\ plast.result = "ok"
  /\ invites_successful[1] = 10
  /\ milestones_reached[1] = <<10>>

\* The XP that the step gave to account v before check_level_up ran: the
\* wager XP of a settled duel, the daily XP, or the XP of a counted message.
XpGain(v) ==
  IF last'.result = "settled" /\ pending_wagers' # pending_wagers
  THEN WagerXp(last'.stake, v)
  ELSE IF last_daily_bonus' # last_daily_bonus
  THEN ACTIVITY_XP_DAILY ELSE ACTIVITY_XP_MESSAGE

\* C24: after a handler has added XP to an account and called
\* check_level_up, the XP of the account is below the threshold
\* 100 * level * (1 + level \div 10) of its new level, and every level gained
\* has taken exactly the threshold of the level left.
C24_XpBelowThreshold ==
  [][\A v \in Users :
       (xp'[v] # xp[v] \/ level'[v] # level[v]) =>
         /\ xp'[v] < 100 * level'[v] * (1 + level'[v] \div 10)
         /\ level'[v] >= level[v]
         /\ level'[v] = level[v] => xp'[v] = xp[v] + XpGain(v)
         /\ level'[v] = level[v] + 1 =>
              xp'[v] = xp[v] + XpGain(v)
                       - 100 * level[v] * (1 + level[v] \div 10)]_vars

\* A group message: the handler that leaves "message" in plast and touches
\* neither the clock, nor a wager, nor a balance, nor the daily bonus.
MessageStep ==
  /\ plast'.op = "message"
  /\ UNCHANGED <<now, points, pending_wagers, attempts, last,
                 last_daily_bonus, wagers_won>>

\* C27: a message less than 30 seconds after the last counted one leaves
\* messages_sent, xp, level, days_active, last_active and last_message_xp of
\* the account as they are; a message after the cooldown adds 1 to
\* messages_sent and the message XP, sets both times to now, and adds 1 to
\* days_active only when it is the first counted message of its calendar day.
C27_ActivityCooldown ==
  [][MessageStep =>
       LET u == plast'.user
           day(t) == (t + SECONDS_INTO_DAY) \div 86400
           elapsed == now - last_message_xp[u] >= 30
           first_of_day == day(last_message_xp[u]) < day(now)
           taken == IF level'[u] > level[u]
                    THEN 100 * level[u] * (1 + level[u] \div 10) ELSE 0
       IN
       /\ ~elapsed =>
            /\ messages_sent'[u] = messages_sent[u]
            /\ xp'[u] = xp[u]
            /\ level'[u] = level[u]
            /\ days_active'[u] = days_active[u]
            /\ last_active'[u] = last_active[u]
            /\ last_message_xp'[u] = last_message_xp[u]
       /\ elapsed =>
            /\ messages_sent'[u] = messages_sent[u] + 1
            /\ xp'[u] + taken = xp[u] + 1
            /\ days_active'[u] =
                 days_active[u] + (IF first_of_day THEN 1 ELSE 0)
            /\ last_active'[u] = now
            /\ last_message_xp'[u] = now]_vars

\* A message 29 seconds after the first counted one was not counted.
C27_MessageWithinCooldown ==
  /\ plast.op = "message"
  /\ plast.user = 2
  /\ ~plast.counted
  /\ now - last_message_xp[2] = 29
  /\ messages_sent[2] = 1
  /\ days_active[2] = 1

\* C28: once a handler has returned, no wager in the pending store is marked
\* accepted: a successful accept settles and removes the wager in one step.
C28_StoredWagersOpen ==
  \A id \in DOMAIN pending_wagers : pending_wagers[id].accepted = FALSE

\* A press of a wager button: the handler that leaves an "accept" record in
\* last and touches neither the clock, nor an activity or invite counter.
AcceptStep ==
  /\ last'.op = "accept"
  /\ UNCHANGED <<now, created, messages_sent, last_daily_bonus, joins,
                 invites_successful, network_vars>>

\* C30: an accept that is turned down because the acceptor is the challenger
\* or holds less than the stake leaves every stored wager, every balance,
\* every XP and level and every won/lost counter as it was; and an accept
\* that does settle (or breaks off after marking the wager) comes from
\* another account than the challenger that held at least the stake.
C30_RejectedAcceptChangesNothing ==
  [][AcceptStep =>
       /\ last'.result \in {"self", "insufficient"} =>
            /\ pending_wagers' = pending_wagers
            /\ points' = points
            /\ xp' = xp
            /\ level' = level
            /\ wagers_won' = wagers_won
            /\ wagers_lost' = wagers_lost
       /\ last'.result \in {"settled", "error"} =>
            /\ last'.wid \in DOMAIN pending_wagers
            /\ last'.user # pending_wagers[last'.wid].challenger_id
            /\ points[last'.user] >= pending_wagers[last'.wid].points]_vars

\* An accept was turned down for lack of points while an open, unexpired
\* wager of another account with a higher stake than some balance is stored.
C30_InsufficientAcceptSeen ==
  /\ last.op = "accept"
  /\ last.result = "insufficient"
  /\ \E id \in DOMAIN pending_wagers : \E u \in Users :
       /\ ~pending_wagers[id].accepted
       /\ now <= pending_wagers[id].expires_at
       /\ u # pending_wagers[id].challenger_id
       /\ points[u] < pending_wagers[id].points

\* A press of the cancel button: the handler that leaves a "cancel" record in
\* last and touches neither the clock, nor an activity or invite counter.
CancelStep ==
  /\ last'.op = "cancel"
  /\ UNCHANGED <<now, created, messages_sent, last_daily_bonus, joins,
                 invites_successful, network_vars>>

\* C31: a cancel that is turned down because the requester is not the
\* challenger leaves every stored wager and every balance as it was; and a
\* cancel that does refund and remove a wager was pressed by its challenger.
C31_ForeignCancelChangesNothing ==
  [][CancelStep =>
       /\ last'.result = "forbidden" =>
            /\ pending_wagers' = pending_wagers
            /\ points' = points
       /\ last'.result = "cancelled" =>
            /\ last'.wid \in DOMAIN pending_wagers
            /\ last'.user = pending_wagers[last'.wid].challenger_id]_vars

\* A cancel by another account was turned down while an unexpired wager is
\* stored.
C31_ForeignCancelSeen ==
  /\ last.op = "cancel"
  /\ last.result = "forbidden"
  /\ \E id \in DOMAIN pending_wagers : now <= pending_wagers[id].expires_at

\* C32: no account is its own parent, and no account holds a challenge for
\* an invite code it owns (a /start with an own code issues none).
C32_NoSelfParent ==
  /\ \A u \in DOMAIN relationships : relationships[u] # u
  /\ \A u \in DOMAIN verifications :
       verifications[u].invite_code \in DOMAIN invites =>
         invites[verifications[u].invite_code].inviter_id # u
  /\ \A h \in link_waiting : invites[h.invite_code].inviter_id # h.user_id

\* A /start with the account's own active code was refused.
C32_OwnCodeRefused ==
  /\ vlast.op = "start"
  /\ vlast.result = "self"
  /\ vlast.code \in DOMAIN invites
  /\ invites[vlast.code].inviter_id = vlast.user
  /\ invites[vlast.code].active
  /\ vlast.user \notin DOMAIN verifications

\* A round of the periodic task: the step that leaves "cleanup" in last and
\* touches neither the clock nor anything a command or a message writes.
SweepStep ==
  /\ last'.op = "cleanup"
  /\ UNCHANGED <<now, created, attempts, invites, relationships, codes,
                 challenges, submissions, vlast, link_waiting,
                 messages_sent, last_daily_bonus, joins, invites_successful,
                 user_cache>>

\* C33: a round of the periodic task removes every expired wager and every
\* expired challenge and nothing else; a second round at the same time finds
\* nothing expired and so leaves wagers, challenges and balances as they are.
C33_SweepIdempotent ==
  [][SweepStep =>
       /\ DOMAIN pending_wagers' = (DOMAIN pending_wagers) \ ExpiredIds
       /\ DOMAIN verifications' =
            (DOMAIN verifications) \ ExpiredVerifications
       /\ ExpiredIds' = {}
       /\ ExpiredVerifications' = {}
       /\ cleanup_expired_wagers' = pending_wagers'
       /\ cleanup_expired_data' = verifications'
       /\ RefundExpired(points, user_cache, ExpiredIds)' = points']_vars

\* A round has removed an expired open wager, refunded it, and removed an
\* expired challenge.
C33_SweptWagerAndChallenge ==
  /\ last.op = "cleanup"
  /\ \E e \in terminal : e[2] = "expired"
  /\ challenges > 0
  /\ verifications = <<>>
  /\ pending_wagers = <<>>
  /\ now > VERIFICATION_TIMEOUT
  /\ \A u \in Users : points[u] = 2 * Point

C35_CreateNeverOverwrites ==
  [][CreateOk =>
       LET kept == (DOMAIN pending_wagers) \ ExpiredIds IN
       /\ last'.wid \notin kept
       /\ \A id \in kept :
            /\ id \in DOMAIN pending_wagers'
            /\ pending_wagers'[id] = pending_wagers[id]
       /\ DOMAIN pending_wagers' = kept \cup {last'.wid}
       /\ pending_wagers'[last'.wid].points = last'.stake]_vars

\* C36: a /start that issues a challenge leaves the account with exactly one
\* challenge, for the code given, with attempts = 0 and an expiry 300 seconds
\* ahead, whatever challenge the account held before; the challenges of the
\* other accounts stay as they are.
C36_IssueReplacesChallenge ==
  [][(StartStep /\ challenges' = challenges + 1) =>
       LET u == vlast'.user IN
       /\ DOMAIN verifications' = (DOMAIN verifications) \cup {u}
       /\ verifications'[u].attempts = 0
       /\ verifications'[u].expires_at = now + 300
       /\ verifications'[u].invite_code = vlast'.code
       /\ \A v \in (DOMAIN verifications) \ {u} :
            verifications'[v] = verifications[v]]_vars

\* A second challenge was issued to account 2 after it had sent an answer,
\* and it stands at no attempts.
C36_ReissuedAfterAnswer ==
  /\ vlast.op = "start"
  /\ vlast.result = "issued"
  /\ vlast.user = 2
  /\ challenges = 2
  /\ submissions >= 1
  /\ 2 \in DOMAIN verifications
  /\ verifications[2].attempts = 0
  /\ verifications[2].expires_at = now + VERIFICATION_TIMEOUT

\* C37: an account that is blocked (now < blacklisted_until) holds no
\* challenge, and every stored challenge stands at 0, 1 or 2 attempts.
C37_BlockedHoldsNoChallenge ==
  \A u \in DOMAIN verifications :
    /\ verifications[u].attempts \in {0, 1, 2}
    /\ now >= blacklisted_until[u]

\* Account 2 is blocked after its third wrong answer, asked for a challenge
\* again and holds none.
C37_BlockedAskedAgain ==
  /\ now < blacklisted_until[2]
  /\ vlast.op = "start"
  /\ vlast.result = "blocked"
  /\ vlast.user = 2
  /\ 2 \notin DOMAIN verifications

\* C38: a private message that is evaluated against a pending, unexpired
\* challenge (a right answer, a wrong one, the third wrong one that blocks)
\* is not counted as activity: messages_sent, xp, days_active and
\* last_message_xp of every account stay as they are.
C38_AnswerIsNoActivity ==
  [][(AnswerStep /\ vlast'.op = "answer" /\ vlast'.attempt > 0) =>
       /\ messages_sent' = messages_sent
       /\ xp' = xp
       /\ days_active' = days_active
       /\ last_message_xp' = last_message_xp]_vars

\* C39: for every invite, total_uses is the length of its list of redeemers,
\* no account is in the list twice, and every account in the list has the
\* owner of the invite as its parent.
C39_UsesMatchRedeemers ==
  \A code \in DOMAIN invites :
    LET used == invites[code].used_by_list IN
    /\ invites[code].total_uses = Len(used)
    /\ \A i, j \in 1..Len(used) : used[i] = used[j] => i = j
    /\ \A i \in 1..Len(used) :
         /\ used[i] \in DOMAIN relationships
         /\ relationships[used[i]] = invites[code].inviter_id

\* One invite has been redeemed by two accounts.
C39_TwoRedeemers ==
  \E code \in DOMAIN invites :
    /\ invites[code].total_uses = 2
    /\ Len(invites[code].used_by_list) = 2
    /\ vlast.op = "link"
    /\ vlast.result = "joined"

====
